---- MODULE Spec2Model ----
(***************************************************************************)
(* A model of the ERC-8004 agent demo: the x402 payment gate in front of   *)
(* the premium and image routes, the feedback writer (POST/GET             *)
(* /api/feedback) and the agent identity bootstrap/cache.                  *)
(***************************************************************************)
EXTENDS Integers, Sequences, FiniteSets, TLC

VARIABLES
    env,        \* process.env, read by every component
    gate,       \* the payment-gated request in flight (withX402 around a handler)
    fb,         \* the last /api/feedback request and its response
    build,      \* which bootstrap module the process runs: the one that verifies
                \* the owner, or the one that registers at start-up
    agentState,       \* the bootstrap module's singleton
    cachedIdentity,   \* the identity cache's singleton
    ledger,           \* the identity registry: token -> owner ("" = not minted)
    calls,            \* the identity calls in flight, one per caller
    regTxs,           \* registration transactions submitted so far
    ledgerChanges,    \* transfers made on the registry so far
    cachedMetadata,   \* the identity cache's metadata singleton
    req,              \* the request to a read-only route in flight, and its response
    script,           \* the run of the registration script (scripts/register)
    hook,             \* the useAgent hook's state in the browser
    page              \* the Home page's endpoint-test state in the browser

idVars == <<build, agentState, cachedIdentity, ledger, calls, regTxs, ledgerChanges,
            cachedMetadata>>

clientVars == <<script, hook, page>>

vars == <<env, gate, fb, idVars, req, clientVars>>

(***************************************************************************)
(* process.env                                                             *)
(***************************************************************************)
UNSET == "<unset>"

\* JavaScript truthiness of an environment value (undefined and "" are falsy)
Truthy(v) == v # UNSET /\ v # ""

\* JavaScript `v || d` on strings
OrElse(v, d) == IF Truthy(v) THEN v ELSE d

EnvDefault ==
    [ CHAIN_ID                |-> UNSET,
      X402_PRICE              |-> UNSET,
      X402_IMAGE_PRICE        |-> UNSET,
      AGENT_WALLET_ADDRESS    |-> UNSET,
      PINATA_JWT              |-> UNSET,
      UPLOAD_FEEDBACK_TO_IPFS |-> UNSET,
      AGENT_ID                |-> UNSET,
      NETWORK_ID              |-> UNSET,
      REGISTER_IDENTITY       |-> UNSET,
      CDP_API_KEY_ID          |-> UNSET,
      CDP_API_KEY_SECRET      |-> UNSET,
      CDP_WALLET_SECRET       |-> UNSET ]

\* parseInt(s, 10) on the decimal strings a CHAIN_ID takes
ParseInt(s) ==
    CASE s = "84532"    -> 84532
      [] s = "11155111" -> 11155111
      [] OTHER          -> 0

(***************************************************************************)
(* x402 payment configuration                                              *)
(***************************************************************************)
getDefaultPaymentConfig(e) ==
    [ scheme  |-> "exact",
      price   |-> OrElse(e.X402_PRICE, "$0.001"),
      network |-> <<"eip155", ParseInt(OrElse(e.CHAIN_ID, "84532"))>>,
      payTo   |-> OrElse(e.AGENT_WALLET_ADDRESS, "") ]

\* the premium route's module-level paymentConfig
paymentConfig(e) == getDefaultPaymentConfig(e)

\* the image route forgetting its price override
imagePaymentConfigNoOverride(e) == getDefaultPaymentConfig(e)

\* the image route overrides the price
imagePaymentConfig(e) ==
    [ getDefaultPaymentConfig(e) EXCEPT !.price = OrElse(e.X402_IMAGE_PRICE, "$0.01") ]

Routes == {"premium", "image"}

\* the `accepts` entry a route hands to withX402
RouteConfig(route, e) ==
    IF route = "premium" THEN paymentConfig(e) ELSE imagePaymentConfig(e)

(***************************************************************************)
(* Request bodies of the gated routes                                      *)
(***************************************************************************)
MinPromptLen == 3
MaxPromptLen == 4000
DefaultPromptLen == 26   \* "A beautiful abstract image"

\* a JSON value found at body.prompt / body.input: absent, a string of a
\* given length, or a (non-zero) number
Absent == [kind |-> "absent", len |-> 0]
Str(n) == [kind |-> "string", len |-> n]
Num    == [kind |-> "number", len |-> 0]

PromptVals ==
    {Absent, Num} \cup
    {Str(n) : n \in {0, MinPromptLen - 1, MinPromptLen, MaxPromptLen, MaxPromptLen + 1}}

\* JavaScript truthiness of such a value
TruthyVal(v) == v.kind = "number" \/ (v.kind = "string" /\ v.len > 0)

\* what `await req.json().catch(() => ({}))` yields: an object, null (the
\* body is the JSON text null), or {} after a parse failure
Bodies ==
    [parsed : {"object"}, prompt : PromptVals, input : {Absent, Str(MinPromptLen)}]
    \cup [parsed : {"null", "malformed"}, prompt : {Absent}, input : {Absent}]

HandlerResult(status, generated, uploaded) ==
    [status |-> status, generated |-> generated, uploaded |-> uploaded]

\* premium handler: echoes the body; reading a field of null throws
\* inside the try block, which the catch turns into a 500
premiumHandler(body) ==
    IF body.parsed = "null" THEN HandlerResult(500, FALSE, FALSE)
    ELSE HandlerResult(200, FALSE, FALSE)

\* outcomes of the image handler's outbound calls
OpenAiOutcomes == {"b64", "url", "none", "throws"}

\* an image handler without the upper limit on the prompt
imageHandlerNoMax(body, e, openai, fetchOk, uploadOk) ==
    IF body.parsed = "null" THEN HandlerResult(500, FALSE, FALSE)
    ELSE
      LET prompt == IF TruthyVal(body.prompt) THEN body.prompt
                    ELSE IF TruthyVal(body.input) THEN body.input
                    ELSE Str(DefaultPromptLen)
      IN  IF prompt.kind # "string" \/ prompt.len < MinPromptLen
            THEN HandlerResult(400, FALSE, FALSE)
          ELSE IF ~Truthy(e.PINATA_JWT)
            THEN HandlerResult(500, FALSE, FALSE)
          ELSE IF openai \in {"throws", "none"}
            THEN HandlerResult(500, TRUE, FALSE)
          ELSE IF openai = "url" /\ ~fetchOk
            THEN HandlerResult(500, TRUE, FALSE)
          ELSE IF ~uploadOk
            THEN HandlerResult(500, TRUE, TRUE)
          ELSE HandlerResult(200, TRUE, TRUE)

\* image handler: validate the prompt, require PINATA_JWT, generate, upload
imageHandler(body, e, openai, fetchOk, uploadOk) ==
    IF body.parsed = "null" THEN HandlerResult(500, FALSE, FALSE)
    ELSE
      LET prompt == IF TruthyVal(body.prompt) THEN body.prompt
                    ELSE IF TruthyVal(body.input) THEN body.input
                    ELSE Str(DefaultPromptLen)
      IN  IF prompt.kind # "string" \/ prompt.len < MinPromptLen
            THEN HandlerResult(400, FALSE, FALSE)
          ELSE IF prompt.len > MaxPromptLen
            THEN HandlerResult(400, FALSE, FALSE)
          ELSE IF ~Truthy(e.PINATA_JWT)
            THEN HandlerResult(500, FALSE, FALSE)
          ELSE IF openai = "throws"
            THEN HandlerResult(500, TRUE, FALSE)
          ELSE IF openai = "none"
            THEN HandlerResult(500, TRUE, FALSE)
          ELSE IF openai = "url" /\ ~fetchOk
            THEN HandlerResult(500, TRUE, FALSE)
          ELSE IF ~uploadOk
            THEN HandlerResult(500, TRUE, TRUE)
          ELSE HandlerResult(200, TRUE, TRUE)

(***************************************************************************)
(* The payment gate: withX402(handler, {accepts: [config]}, server)        *)
(***************************************************************************)
Prices   == {"$0.001", "$0.01", "$0.005"}
Networks == {<<"eip155", 84532>>, <<"eip155", 11155111>>}
Payees   == {"", "0xAA"}
Payers   == {"0xP1"}
TxHashes == {"0xT1", "0xT2"}

\* the payment proof header of a request
NoHeader ==
    [present |-> FALSE, scheme |-> "", price |-> "", network |-> <<"", 0>>,
     payTo |-> "", payer |-> "", sigOk |-> FALSE]

Proofs ==
    [present : {TRUE}, scheme : {"exact"}, price : Prices, network : Networks,
     payTo : Payees, payer : Payers, sigOk : BOOLEAN]

Headers == {NoHeader} \cup Proofs

\* the proof pays what the route accepts
MatchesTerms(h, cfg) ==
    /\ h.scheme = cfg.scheme
    /\ h.price = cfg.price
    /\ h.network = cfg.network
    /\ h.payTo = cfg.payTo

NoSettlement ==
    [present |-> FALSE, transaction |-> "", payer |-> "", network |-> <<"", 0>>]

NoResponse == [status |-> 0, accepts |-> <<>>, settlement |-> NoSettlement]

\* the payment-required response: status 402 and the accepted terms
PaymentRequired(cfg) ==
    [status |-> 402, accepts |-> <<cfg>>, settlement |-> NoSettlement]

GateIdle ==
    [ pc |-> "idle", route |-> "premium", header |-> NoHeader,
      body |-> [parsed |-> "malformed", prompt |-> Absent, input |-> Absent],
      verifyCalls |-> 0, verified |-> FALSE, handlerCalls |-> 0,
      settleCalls |-> 0, handlerStatus |-> 0, log |-> <<>>, outcome |-> "none",
      response |-> NoResponse ]

\* a request arrives at POST /api/agent/premium or POST /api/agent/image
Receive ==
    /\ gate.pc = "idle"
    /\ \E r \in Routes, h \in Headers, b \in Bodies :
         gate' = [GateIdle EXCEPT !.pc = "unpaid", !.route = r,
                                  !.header = h, !.body = b]
    /\ UNCHANGED <<env, fb, idVars, req, clientVars>>

\* a wrapper that lets a request without a payment proof through
InspectLax ==
    /\ gate.pc = "unpaid"
    /\ IF gate.header.present
         THEN gate' = [gate EXCEPT !.pc = "verifying",
                                   !.verifyCalls = @ + 1,
                                   !.log = Append(@, "verify")]
         ELSE gate' = [gate EXCEPT !.pc = "handler-invoked",
                                   !.handlerCalls = @ + 1,
                                   !.log = Append(@, "handler")]
    /\ UNCHANGED <<env, fb, idVars, req, clientVars>>

\* the wrapper inspects the request for a payment proof header: without
\* one it answers 402 with the accepted terms, with one it asks the
\* facilitator to verify it
Inspect ==
    /\ gate.pc = "unpaid"
    /\ IF gate.header.present
         THEN gate' = [gate EXCEPT !.pc = "verifying",
                                   !.verifyCalls = @ + 1,
                                   !.log = Append(@, "verify")]
         ELSE gate' = [gate EXCEPT !.pc = "done",
                                   !.outcome = "verification-failed",
                                   !.response = PaymentRequired(RouteConfig(gate.route, env))]
    /\ UNCHANGED <<env, fb, idVars, req, clientVars>>

\* the facilitator's verdict: valid only for a well-signed proof of the
\* accepted terms, and only when the facilitator can be reached
VerifyVerdict(h, cfg, facilitatorUp) ==
    facilitatorUp /\ h.sigOk /\ MatchesTerms(h, cfg)

\* verification returns: a valid proof lets the wrapped handler run, any
\* other verdict ends the request with the payment-required response
VerifyDone ==
    /\ gate.pc = "verifying"
    /\ \E up \in BOOLEAN :
         IF VerifyVerdict(gate.header, RouteConfig(gate.route, env), up)
           THEN gate' = [gate EXCEPT !.pc = "handler-invoked",
                                     !.verified = TRUE,
                                     !.handlerCalls = @ + 1,
                                     !.log = Append(@, "handler")]
           ELSE gate' = [gate EXCEPT !.pc = "done",
                                     !.outcome = "verification-failed",
                                     !.response = PaymentRequired(RouteConfig(gate.route, env))]
    /\ UNCHANGED <<env, fb, idVars, req, clientVars>>

\* a wrapper that settles unless the server failed
ShouldSettleBelow500(status) == status < 500

\* settlement is attempted only for a handler status below 400
ShouldSettle(status) == status < 400

\* the wrapped handler returns: a failure is passed through unsettled, a
\* success starts the settlement with the facilitator
HandlerReturn ==
    /\ gate.pc = "handler-invoked"
    /\ \E openai \in OpenAiOutcomes, fetchOk \in BOOLEAN, uploadOk \in BOOLEAN :
         LET res == IF gate.route = "premium"
                      THEN premiumHandler(gate.body)
                      ELSE imageHandler(gate.body, env, openai, fetchOk, uploadOk)
         IN  IF ShouldSettle(res.status)
               THEN gate' = [gate EXCEPT !.pc = "settling",
                                         !.handlerStatus = res.status,
                                         !.settleCalls = @ + 1,
                                         !.log = Append(@, "settle")]
               ELSE gate' = [gate EXCEPT !.pc = "done",
                                         !.handlerStatus = res.status,
                                         !.outcome = "not-settled",
                                         !.response = [status |-> res.status,
                                                       accepts |-> <<>>,
                                                       settlement |-> NoSettlement]]
    /\ UNCHANGED <<env, fb, idVars, req, clientVars>>

\* the response after a settlement the facilitator refused or could not
\* be reached for: an error, nothing attached
SettlementFailed == [status |-> 402, accepts |-> <<>>, settlement |-> NoSettlement]

\* a settlement result that leaves the payer out
SettlementOfNoPayer(h, tx) ==
    [present |-> TRUE, transaction |-> tx, payer |-> "", network |-> h.network]

\* the settlement result attached to a settled response
SettlementOf(h, tx) ==
    [present |-> TRUE, transaction |-> tx, payer |-> h.payer, network |-> h.network]

\* the facilitator settles (the settlement is attached to the handler's
\* response) or fails to (an error response goes out instead)
SettleDone ==
    /\ gate.pc = "settling"
    /\ \/ \E tx \in TxHashes :
            gate' = [gate EXCEPT !.pc = "done",
                                 !.outcome = "settled",
                                 !.response = [status |-> gate.handlerStatus,
                                               accepts |-> <<>>,
                                               settlement |->
                                                 SettlementOf(gate.header, tx)]]
       \/ gate' = [gate EXCEPT !.pc = "done",
                               !.outcome = "settle-failed",
                               !.response = SettlementFailed]
    /\ UNCHANGED <<env, fb, idVars, req, clientVars>>

\* the response has gone out; the request's state is dropped
Respond ==
    /\ gate.pc = "done"
    /\ gate' = GateIdle
    /\ UNCHANGED <<env, fb, idVars, req, clientVars>>

(***************************************************************************)
(* Text: strings are sequences of character codes, so that serialising,    *)
(* encoding and hashing act on the bytes themselves                        *)
(***************************************************************************)
K_open_comment == <<123, 34, 99, 111, 109, 109, 101, 110, 116, 34, 58>>   \* {"comment":
K_score == <<44, 34, 115, 99, 111, 114, 101, 34, 58>>   \* ,"score":
K_tag1 == <<44, 34, 116, 97, 103, 49, 34, 58>>   \* ,"tag1":
K_tag2 == <<44, 34, 116, 97, 103, 50, 34, 58>>   \* ,"tag2":
K_timestamp == <<44, 34, 116, 105, 109, 101, 115, 116, 97, 109, 112, 34, 58>>   \* ,"timestamp":
K_endpoint == <<44, 34, 101, 110, 100, 112, 111, 105, 110, 116, 34, 58>>   \* ,"endpoint":
K_paymentTxHash == <<44, 34, 112, 97, 121, 109, 101, 110, 116, 84, 120, 72, 97, 115, 104, 34, 58>>   \* ,"paymentTxHash":
K_proofOfPayment == <<44, 34, 112, 114, 111, 111, 102, 79, 102, 80, 97, 121, 109, 101, 110, 116, 34, 58>>   \* ,"proofOfPayment":
K_fromAddress == <<123, 34, 102, 114, 111, 109, 65, 100, 100, 114, 101, 115, 115, 34, 58>>   \* {"fromAddress":
K_toAddress == <<44, 34, 116, 111, 65, 100, 100, 114, 101, 115, 115, 34, 58>>   \* ,"toAddress":
K_chainId == <<44, 34, 99, 104, 97, 105, 110, 73, 100, 34, 58>>   \* ,"chainId":
K_txHash == <<44, 34, 116, 120, 72, 97, 115, 104, 34, 58>>   \* ,"txHash":
K_pinataPrefix == <<123, 34, 112, 105, 110, 97, 116, 97, 79, 112, 116, 105, 111, 110, 115, 34, 58, 123, 34, 99, 105, 100, 86, 101, 114, 115, 105, 111, 110, 34, 58, 49, 125, 44, 34, 112, 105, 110, 97, 116, 97, 77, 101, 116, 97, 100, 97, 116, 97, 34, 58, 123, 34, 110, 97, 109, 101, 34, 58, 34, 102, 101, 101, 100, 98, 97, 99, 107, 45>>   \* {"pinataOptions":{"cidVersion":1},"pinataMetadata":{"name":"feedback-
K_pinataMiddle == <<46, 106, 115, 111, 110, 34, 125, 44, 34, 112, 105, 110, 97, 116, 97, 67, 111, 110, 116, 101, 110, 116, 34, 58>>   \* .json"},"pinataContent":
S_empty == <<>>
S_ok == <<111, 107>>   \* ok
S_quote == <<97, 34, 98>>   \* a"b
S_x == <<120>>   \* x
S_path == <<47, 112>>   \* /p
S_tx == <<48, 120, 84, 49>>   \* 0xT1
S_from == <<48, 120, 80, 49>>   \* 0xP1
S_to == <<48, 120, 65, 65>>   \* 0xAA
S_chain == <<56, 52, 53, 51, 50>>   \* 84532

\* the decimal digits of a natural number
RECURSIVE Digits(_)
Digits(n) == IF n < 10 THEN <<48 + n>> ELSE Digits(n \div 10) \o <<48 + (n % 10)>>

\* JSON.stringify of a string: quoted, with " and \ escaped
RECURSIVE Escape(_)
Escape(s) ==
    IF s = <<>> THEN <<>>
    ELSE (IF Head(s) \in {34, 92} THEN <<92, Head(s)>> ELSE <<Head(s)>>) \o Escape(Tail(s))

JsonString(s) == <<34>> \o Escape(s) \o <<34>>

\* a JSON number is kept as twice its value, so that halves are exact:
\* twice = 101 is 50.5. JSON.stringify of a non-negative one
JsonNumber(twice) ==
    IF twice % 2 = 0 THEN Digits(twice \div 2)
    ELSE Digits(twice \div 2) \o <<46, 53>>

(***************************************************************************)
(* Encodings used by the feedback writer                                   *)
(***************************************************************************)
PadChar == 64   \* '=' ; 0..63 index the base64 alphabet

\* Buffer.from(s).toString("base64"): three bytes become four characters,
\* a short last group is padded
Base64(b) ==
    LET n == Len(b)
        Byte(k) == IF k <= n THEN b[k] ELSE 0
        Char(i) ==
          LET g  == (i - 1) \div 4
              j  == (i - 1) % 4
              b1 == Byte(3 * g + 1)
              b2 == Byte(3 * g + 2)
              b3 == Byte(3 * g + 3)
          IN  CASE j = 0 -> b1 \div 4
                [] j = 1 -> (b1 % 4) * 16 + (b2 \div 16)
                [] j = 2 -> IF 3 * g + 2 > n THEN PadChar
                            ELSE (b2 % 16) * 4 + (b3 \div 64)
                [] OTHER -> IF 3 * g + 3 > n THEN PadChar ELSE b3 % 64
    IN  [i \in 1..(4 * ((n + 2) \div 3)) |-> Char(i)]

\* what a reader of the data URI decodes
Base64Decode(c) ==
    LET m == Len(c)
        pads == IF m = 0 THEN 0
                ELSE IF c[m - 1] = PadChar THEN 2
                ELSE IF c[m] = PadChar THEN 1 ELSE 0
        Val(k) == IF c[k] = PadChar THEN 0 ELSE c[k]
        ByteAt(i) ==
          LET g  == (i - 1) \div 3
              j  == (i - 1) % 3
              c1 == Val(4 * g + 1)
              c2 == Val(4 * g + 2)
              c3 == Val(4 * g + 3)
              c4 == Val(4 * g + 4)
          IN  CASE j = 0 -> c1 * 4 + (c2 \div 16)
                [] j = 1 -> (c2 % 16) * 16 + (c3 \div 4)
                [] OTHER -> (c3 % 4) * 64 + c4
    IN  [i \in 1..(3 * (m \div 4) - pads) |-> ByteAt(i)]

\* viem toHex(string): the hex digits of the UTF-8 bytes (ASCII here)
toHex(b) ==
    [i \in 1..(2 * Len(b)) |->
        IF i % 2 = 1 THEN b[(i + 1) \div 2] \div 16 ELSE b[i \div 2] % 16]

\* the bytes a hex string stands for
HexBytes(h) ==
    [i \in 1..(Len(h) \div 2) |-> h[2 * i - 1] * 16 + h[2 * i]]

\* viem keccak256(hex): a collision-free digest of the bytes the hex
\* string stands for, kept as its preimage
keccak256(hex) == [digest |-> HexBytes(hex)]

NoHash == [digest |-> <<>>]

(***************************************************************************)
(* The feedback writer: POST /api/feedback and GET /api/feedback           *)
(***************************************************************************)
MinScore == 0
MaxScore == 100

\* the JSON value at body.score: a number (as twice its value) or not one
ScoreNum(twice) == [kind |-> "number", twice |-> twice]
ScoreOther(k)   == [kind |-> k, twice |-> 0]

ScoreVals ==
    { ScoreNum(t) : t \in { 2 * MinScore - 2, 2 * MinScore - 1, 2 * MinScore,
                            2 * MinScore + 1, 2 * MinScore + 2, MinScore + MaxScore + 1,
                            2 * MaxScore - 1, 2 * MaxScore, 2 * MaxScore + 1,
                            2 * MaxScore + 2, 3 * MaxScore } }
    \cup { ScoreOther(k) : k \in {"string", "absent", "null", "boolean"} }

\* a validation that forgets the upper limit
ScoreRejectedNoUpper(score) ==
    \/ score.kind # "number"
    \/ score.twice < 2 * MinScore

\* typeof score !== "number" || score < 0 || score > 100
ScoreRejected(score) ==
    \/ score.kind # "number"
    \/ score.twice < 2 * MinScore
    \/ score.twice > 2 * MaxScore

NoProof == [present |-> FALSE, fromAddress |-> <<>>, toAddress |-> <<>>,
            chainId |-> <<>>, txHash |-> <<>>]
SomeProof == [present |-> TRUE, fromAddress |-> S_from, toAddress |-> S_to,
              chainId |-> S_chain, txHash |-> S_tx]

\* the request bodies of POST /api/feedback
FeedbackBodies ==
    [ parsed : {"object"}, score : ScoreVals, comment : {S_empty, S_quote},
      tag1 : {S_empty, S_x}, tag2 : {S_empty}, endpoint : {S_empty, S_path},
      paymentTxHash : {S_empty, S_tx}, proofOfPayment : {NoProof, SomeProof} ]
    \cup
    [ parsed : {"null", "malformed"}, score : {ScoreOther("absent")}, comment : {S_empty},
      tag1 : {S_empty}, tag2 : {S_empty}, endpoint : {S_empty},
      paymentTxHash : {S_empty}, proofOfPayment : {NoProof} ]

\* the FeedbackMetadata object the handler builds: the optional fields
\* are set only when the request gives a truthy value
FeedbackData(body, now) ==
    [ comment |-> body.comment, score |-> body.score.twice,
      tag1 |-> body.tag1, tag2 |-> body.tag2, timestamp |-> now,
      hasEndpoint |-> body.endpoint # <<>>, endpoint |-> body.endpoint,
      hasPaymentTxHash |-> body.paymentTxHash # <<>>, paymentTxHash |-> body.paymentTxHash,
      hasProofOfPayment |-> body.proofOfPayment.present,
      proofOfPayment |-> body.proofOfPayment ]

\* JSON.stringify(feedbackData): the keys in insertion order
JSONstringify(d) ==
    K_open_comment \o JsonString(d.comment)
    \o K_score \o JsonNumber(d.score)
    \o K_tag1 \o JsonString(d.tag1)
    \o K_tag2 \o JsonString(d.tag2)
    \o K_timestamp \o Digits(d.timestamp)
    \o (IF d.hasEndpoint THEN K_endpoint \o JsonString(d.endpoint) ELSE <<>>)
    \o (IF d.hasPaymentTxHash THEN K_paymentTxHash \o JsonString(d.paymentTxHash) ELSE <<>>)
    \o (IF d.hasProofOfPayment
          THEN K_proofOfPayment
               \o K_fromAddress \o JsonString(d.proofOfPayment.fromAddress)
               \o K_toAddress \o JsonString(d.proofOfPayment.toAddress)
               \o K_chainId \o JsonString(d.proofOfPayment.chainId)
               \o K_txHash \o JsonString(d.proofOfPayment.txHash)
               \o <<125>>
          ELSE <<>>)
    \o <<125>>

\* a data URI built from a payload stamped again
generateDataUriFresh(d) ==
    [scheme |-> "data", payload |-> Base64(JSONstringify([d EXCEPT !.timestamp = @ + 1]))]

\* generateDataUri: data:application/json;base64,<base64 of the JSON text>
generateDataUri(d) == [scheme |-> "data", payload |-> Base64(JSONstringify(d))]

\* the request body uploadJsonToIPFS posts to the pinning service
PinataRequestBody(d, name) ==
    K_pinataPrefix \o Digits(name) \o K_pinataMiddle \o JSONstringify(d) \o <<125>>

\* the pinataContent the pinning service receives in that body and pins
PinnedContent(reqBody, name) ==
    SubSeq(reqBody,
           Len(K_pinataPrefix) + Len(Digits(name)) + Len(K_pinataMiddle) + 1,
           Len(reqBody) - 1)

\* ipfs://<cid>: the CID addresses exactly the pinned content
IpfsUri(content) == [scheme |-> "ipfs", payload |-> content]

NoUri == [scheme |-> "none", payload |-> <<>>]

\* an upload switch that ignores the credentials
IpfsConfiguredFlagOnly(e) == e.UPLOAD_FEEDBACK_TO_IPFS = "true"

\* uploadToIpfs && pinataJwt
IpfsConfigured(e) == e.UPLOAD_FEEDBACK_TO_IPFS = "true" /\ Truthy(e.PINATA_JWT)

FeedbackError(status) ==
    [ status |-> status, hasUri |-> FALSE, uri |-> NoUri, hasHash |-> FALSE,
      hash |-> NoHash, uploadedToIpfs |-> FALSE ]

\* a handler that answers a failed upload with the data URI instead
UploadErrorFallsBack(feedbackData, feedbackHash) ==
    [ status |-> 200, hasUri |-> TRUE, uri |-> generateDataUri(feedbackData),
      hasHash |-> TRUE, hash |-> feedbackHash, uploadedToIpfs |-> FALSE ]

\* uploadJsonToIPFS threw: the catch block answers 500 with the error text
UploadError(feedbackData, feedbackHash) == FeedbackError(500)

\* POST /api/feedback: [resp, uploads, pinned]
feedbackPost(body, e, now, uploadOk) ==
    IF body.parsed # "object"
      THEN [resp |-> FeedbackError(500), uploads |-> 0, pinned |-> <<>>]
    ELSE IF ScoreRejected(body.score)
      THEN [resp |-> FeedbackError(400), uploads |-> 0, pinned |-> <<>>]
    ELSE
      LET feedbackData == FeedbackData(body, now)
          jsonString   == JSONstringify(feedbackData)
          feedbackHash == keccak256(toHex(jsonString))
          reqBody      == PinataRequestBody(feedbackData, feedbackData.timestamp)
          content      == PinnedContent(reqBody, feedbackData.timestamp)
      IN  IF IpfsConfigured(e)
            THEN IF uploadOk
                   THEN [ resp |-> [ status |-> 200, hasUri |-> TRUE,
                                     uri |-> IpfsUri(content), hasHash |-> TRUE,
                                     hash |-> feedbackHash,
                                     uploadedToIpfs |-> IpfsConfigured(e) ],
                          uploads |-> 1, pinned |-> content ]
                   ELSE [ resp |-> UploadError(feedbackData, feedbackHash),
                          uploads |-> 1, pinned |-> <<>> ]
            ELSE [ resp |-> [ status |-> 200, hasUri |-> TRUE,
                              uri |-> generateDataUri(feedbackData), hasHash |-> TRUE,
                              hash |-> feedbackHash,
                              uploadedToIpfs |-> IpfsConfigured(e) ],
                   uploads |-> 0, pinned |-> <<>> ]

FbIdle ==
    [ pc |-> "idle",
      body |-> [ parsed |-> "malformed", score |-> ScoreOther("absent"),
                 comment |-> S_empty, tag1 |-> S_empty, tag2 |-> S_empty,
                 endpoint |-> S_empty, paymentTxHash |-> S_empty,
                 proofOfPayment |-> NoProof ],
      now |-> 0, resp |-> FeedbackError(0), uploads |-> 0, pinned |-> <<>>,
      ipfsEnabled |-> FALSE ]

Timestamps == {1761, 1762}

\* a POST /api/feedback request is handled
FeedbackPOST ==
    /\ fb.pc = "idle"
    /\ \E body \in FeedbackBodies, now \in Timestamps, uploadOk \in BOOLEAN :
         LET r == feedbackPost(body, env, now, uploadOk)
         IN  fb' = [ FbIdle EXCEPT !.pc = "post", !.body = body, !.now = now,
                                   !.resp = r.resp, !.uploads = r.uploads,
                                   !.pinned = r.pinned ]
    /\ UNCHANGED <<env, gate, idVars, req, clientVars>>

\* GET /api/feedback reports whether the upload is enabled and configured
FeedbackGET ==
    /\ fb.pc = "idle"
    /\ fb' = [ FbIdle EXCEPT !.pc = "get",
                             !.resp = [FeedbackError(200) EXCEPT !.status = 200],
                             !.ipfsEnabled = IpfsConfigured(env) ]
    /\ UNCHANGED <<env, gate, idVars, req, clientVars>>

\* the response has gone out; the request's state is dropped
FeedbackRespond ==
    /\ fb.pc # "idle"
    /\ fb' = FbIdle
    /\ UNCHANGED <<env, gate, idVars, req, clientVars>>

(***************************************************************************)
(* Agent identity: the registry, the bootstrap singleton and the cache     *)
(***************************************************************************)
NULL == "<null>"

DEFAULT_NETWORK_ID == "base-sepolia"
DEFAULT_CHAIN_ID == 84532

\* NETWORK_ID_TO_CHAIN_ID[networkId] ?? DEFAULT_CHAIN_ID
getChainIdFromNetworkId(networkId) ==
    CASE networkId = "base-sepolia"     -> 84532
      [] networkId = "ethereum-sepolia" -> 11155111
      [] OTHER                          -> DEFAULT_CHAIN_ID

\* a lookup that hands out the other registry's address
getRegistryAddressSwapped(registry, chainId) ==
    IF registry = "identity" THEN "0x8004B663" ELSE "0x8004A818"

\* CHAIN_ADDRESSES: both supported chains carry the same deployments
getRegistryAddress(registry, chainId) ==
    IF registry = "identity" THEN "0x8004A818" ELSE "0x8004B663"

\* String.prototype.toLowerCase on the addresses in play
toLowerCase(a) ==
    CASE a = "0xAA" -> "0xaa"
      [] a = "0xBB" -> "0xbb"
      [] a = "0xCC" -> "0xcc"
      [] OTHER      -> a

\* BigInt(agentId) on the strings in play: decimal, signed and prefixed
\* literals parse, anything else is a SyntaxError
BigIntParses(s) == s \notin {"abc"}

BigInt(s) ==
    CASE s = "5"   -> 5
      [] s = "7"   -> 7
      [] s = "0x5" -> 5
      [] s = "-5"  -> -5
      [] OTHER     -> 0

\* SUPPORTED_NETWORK_IDS and the chains CHAIN_ADDRESSES has an entry for
SUPPORTED_NETWORK_IDS == {"base-sepolia", "ethereum-sepolia"}
SupportedChainIds == {84532, 11155111}
isChainSupported(chainId) == chainId \in SupportedChainIds

Tokens == {5, 7}

\* the metadata URI a token carries on the registry
TokenURI(t) == IF t = 5 THEN "ipfs://five" ELSE "ipfs://seven"

\* the AgentIdentityState held in a singleton; set = FALSE stands for null
NullState ==
    [ set |-> FALSE, agentId |-> NULL, agentAddress |-> "", agentURI |-> NULL,
      isRegistered |-> FALSE, chainId |-> 0, identityRegistry |-> "",
      reputationRegistry |-> "" ]

\* the cached metadata object with its _uri marker; set = FALSE stands for null
NoMetadata == [set |-> FALSE, uri |-> "", name |-> ""]

\* what a read-only route answers: the status, the error text and the
\* parts of the JSON body the routes fill in
NoTerms == [scheme |-> "", price |-> "", network |-> "", payTo |-> ""]
NoSummary == [count |-> 0, averageValue |-> 0]
NoRouteResponse ==
    [ status |-> 0, error |-> "", agentId |-> <<>>, summary |-> NoSummary,
      feedback |-> <<>>, identity |-> NullState, metadata |-> NoMetadata,
      payment |-> NoTerms, hasSettlement |-> FALSE ]

\* a request to /api/agent/reputation, /api/agent/identity or GET
\* /api/agent/premium: where its handler stands and what it holds
NoSdkReads ==
    [ attempted |-> FALSE, summaryOk |-> FALSE, feedbackOk |-> FALSE,
      summary |-> NoSummary, list |-> <<>> ]
ReqIdle ==
    [ pc |-> "idle", route |-> "none", query |-> "", caller |-> "",
      state |-> NullState, sdk |-> NoSdkReads, response |-> NoRouteResponse ]

\* the registration script before it is run
ScriptIdle ==
    [ pc |-> "idle", exitCode |-> 0, why |-> "", networkId |-> "", chainId |-> 0,
      walletAddress |-> "", sent |-> 0, agentId |-> NULL ]

\* the hook after its first render: no messages, nothing pending.
\* pendingImageRequest is the React state; rendered is the value of it that
\* the callbacks of the latest render closed over
HookIdle ==
    [ messages |-> <<>>, isThinking |-> FALSE, inflight |-> FALSE,
      pendingImageRequest |-> NULL, rendered |-> NULL,
      lastConfirm |-> NULL, confirms |-> 0, served |-> 0 ]

\* the page after its first render
NoProofOfPayment ==
    [set |-> FALSE, fromAddress |-> "", toAddress |-> "", chainId |-> 0, txHash |-> ""]
PageIdle ==
    [ lastEndpoint |-> NULL, lastPaymentTxHash |-> NULL,
      lastProofOfPayment |-> NoProofOfPayment, premiumResponse |-> NULL,
      endpointError |-> NULL ]

\* the unregistered state with its flag set
UnregisteredStateFlagged(address, chainId) ==
    [ set |-> TRUE, agentId |-> NULL, agentAddress |-> address, agentURI |-> NULL,
      isRegistered |-> TRUE, chainId |-> chainId,
      identityRegistry |-> getRegistryAddress("identity", chainId),
      reputationRegistry |-> getRegistryAddress("reputation", chainId) ]

\* the state built when no agent id is configured
UnregisteredState(address, chainId) ==
    [ set |-> TRUE, agentId |-> NULL, agentAddress |-> address, agentURI |-> NULL,
      isRegistered |-> FALSE, chainId |-> chainId,
      identityRegistry |-> getRegistryAddress("identity", chainId),
      reputationRegistry |-> getRegistryAddress("reputation", chainId) ]

\* a registered state that misses its flag
RegisteredStateUnflagged(agentId, owner, uri, chainId) ==
    [UnregisteredState(owner, chainId) EXCEPT !.agentId = agentId, !.agentURI = uri]

\* a registered state that is written before its URI is known
RegisteredStateNoUri(agentId, owner, uri, chainId) ==
    [UnregisteredState(owner, chainId) EXCEPT !.agentId = agentId,
                                              !.isRegistered = TRUE]

\* the state built from an identity record read from the registry
RegisteredState(agentId, owner, uri, chainId) ==
    [ set |-> TRUE, agentId |-> agentId, agentAddress |-> owner, agentURI |-> uri,
      isRegistered |-> TRUE, chainId |-> chainId,
      identityRegistry |-> getRegistryAddress("identity", chainId),
      reputationRegistry |-> getRegistryAddress("reputation", chainId) ]

\* an ownership check that compares the addresses as written
OwnerMismatchExact(owner, expectedWallet) ==
    Truthy(expectedWallet) /\ owner # expectedWallet

\* expectedWallet && identity.owner.toLowerCase() !== expectedWallet.toLowerCase()
OwnerMismatch(owner, expectedWallet) ==
    Truthy(expectedWallet) /\ toLowerCase(owner) # toLowerCase(expectedWallet)

\* getAgentIdentity: ownerOf and tokenURI of the token, or null when the
\* token does not exist or the RPC call fails
NoIdentity == [found |-> FALSE, owner |-> "", agentURI |-> ""]
getAgentIdentity(ldg, token, rpcOk) ==
    IF rpcOk /\ token \in DOMAIN ldg /\ ldg[token] # ""
      THEN [found |-> TRUE, owner |-> ldg[token], agentURI |-> TokenURI(token)]
      ELSE NoIdentity

\* walletProvider.getAddress(): the configured wallet, or a fresh one
WalletAddress(e) == OrElse(e.AGENT_WALLET_ADDRESS, "0xCC")

\* buildMetadataURI(AGENT_DOMAIN || "localhost:3000")
buildMetadataURI == "https://localhost:3000/.well-known/agent-metadata.json"

\* the agent id the registry mints for the k-th registration
MintedId(k) == CASE k = 1 -> "9" [] k = 2 -> "10" [] OTHER -> "11"

Procs == {"p1", "p2"}

MaxRegTxs == 2
MaxLedgerChanges == 1

\* a call in flight: which function, its argument, the locals it
\* captured before awaiting the registry, and how it ended
CallIdle ==
    [ pc |-> "idle", fn |-> "none", arg |-> "", targetId |-> "",
      expectedWallet |-> "", address |-> "", chainId |-> 0,
      hit |-> FALSE, reads |-> 0, readOwner |-> "", ret |-> NullState,
      error |-> "", result |-> "" ]

Returned(call, state) == [call EXCEPT !.pc = "returned", !.ret = state]
Threw(call, err)      == [call EXCEPT !.pc = "threw", !.error = err]

\* the call evaluates BigInt(agentId) and awaits getAgentIdentity; a string
\* BigInt rejects ends the call with a SyntaxError before anything is read
AwaitRegistry(c) ==
    IF BigIntParses(c.targetId)
      THEN [c EXCEPT !.pc = "reading", !.reads = 1]
      ELSE Threw(c, "syntax-error")

networkChainId(e) == getChainIdFromNetworkId(OrElse(e.NETWORK_ID, DEFAULT_NETWORK_ID))

\* bootstrapAgentIdentity() of bootstrap.ts, up to its first await
BootstrapStart(p) ==
    /\ build = "verifying"
    /\ calls[p].pc = "idle"
    /\ LET c == [CallIdle EXCEPT !.fn = "bootstrap",
                                 !.targetId = env.AGENT_ID,
                                 !.expectedWallet = env.AGENT_WALLET_ADDRESS,
                                 !.chainId = networkChainId(env)]
       IN  IF agentState.set
             THEN /\ calls' = [calls EXCEPT ![p] = Returned([c EXCEPT !.hit = TRUE], agentState)]
                  /\ UNCHANGED agentState
           ELSE IF ~Truthy(c.targetId)
             THEN LET s == UnregisteredState(OrElse(c.expectedWallet, ""), c.chainId)
                  IN  /\ agentState' = s
                      /\ calls' = [calls EXCEPT ![p] = Returned(c, s)]
           ELSE /\ calls' = [calls EXCEPT ![p] = AwaitRegistry(c)]
                /\ UNCHANGED agentState
    /\ UNCHANGED <<env, gate, fb, build, cachedIdentity, ledger, regTxs, ledgerChanges, cachedMetadata, req, clientVars>>

\* bootstrapAgentIdentity() of bootstrap.ts, from the registry's answer on
BootstrapFinish(p) ==
    /\ build = "verifying"
    /\ calls[p].pc = "reading"
    /\ calls[p].fn = "bootstrap"
    /\ \E rpcOk \in BOOLEAN :
         LET c == calls[p]
             identity == getAgentIdentity(ledger, BigInt(c.targetId), rpcOk)
             c1 == [c EXCEPT !.readOwner = identity.owner]
         IN  IF ~identity.found
               THEN /\ calls' = [calls EXCEPT ![p] = Threw(c1, "not-found")]
                    /\ UNCHANGED agentState
             ELSE IF OwnerMismatch(identity.owner, c.expectedWallet)
               THEN /\ calls' = [calls EXCEPT ![p] = Threw(c1, "wallet-mismatch")]
                    /\ UNCHANGED agentState
             ELSE LET s == RegisteredState(c.targetId, identity.owner,
                                           identity.agentURI, c.chainId)
                  IN  /\ agentState' = s
                      /\ calls' = [calls EXCEPT ![p] = Returned(c1, s)]
    /\ UNCHANGED <<env, gate, fb, build, cachedIdentity, ledger, regTxs, ledgerChanges, cachedMetadata, req, clientVars>>

\* an auto-registration that takes any non-empty flag for a yes
AfterBootstrapAnyFlag(c, state, e) ==
    IF c.fn # "init" \/ state.isRegistered \/ ~Truthy(e.REGISTER_IDENTITY)
      THEN Returned(c, state)
      ELSE [c EXCEPT !.pc = "registering", !.ret = state]

\* what bootstrapAndRegisterIdentity does with the bootstrapped state: stop
\* when it is registered or auto-registration is off, else send the
\* registration transaction
AfterBootstrap(c, state, e) ==
    IF c.fn # "init" \/ state.isRegistered \/ e.REGISTER_IDENTITY # "true"
      THEN Returned(c, state)
      ELSE [c EXCEPT !.pc = "registering", !.ret = state]

\* bootstrapAgentIdentity(agentAddress?) of the registering build, up to its
\* first await; called directly (fn = "bootstrap") or as the first step of
\* bootstrapAndRegisterIdentity (fn = "init", with the wallet's address)
RegisteringBootstrapStart(p) ==
    /\ build = "registering"
    /\ calls[p].pc = "idle"
    /\ \E fn \in {"bootstrap", "init"}, given \in {"", WalletAddress(env)} :
         /\ fn = "init" => given = WalletAddress(env)
         /\ LET c == [CallIdle EXCEPT !.fn = fn, !.arg = given,
                                      !.targetId = env.AGENT_ID,
                                      !.address = OrElse(given, OrElse(env.AGENT_WALLET_ADDRESS, "")),
                                      !.chainId = networkChainId(env)]
            IN  IF agentState.set
                  THEN LET s == IF Truthy(given) /\ agentState.agentAddress = ""
                                  THEN [agentState EXCEPT !.agentAddress = given]
                                  ELSE agentState
                           c1 == AfterBootstrap([c EXCEPT !.hit = TRUE], s, env)
                       IN  /\ agentState' = s
                           /\ calls' = [calls EXCEPT ![p] = c1]
                           /\ regTxs' = IF c1.pc = "registering" THEN regTxs + 1 ELSE regTxs
                           /\ c1.pc = "registering" => regTxs < MaxRegTxs
                ELSE IF ~Truthy(c.targetId)
                  THEN LET s == UnregisteredState(c.address, c.chainId)
                           c1 == AfterBootstrap(c, s, env)
                       IN  /\ agentState' = s
                           /\ calls' = [calls EXCEPT ![p] = c1]
                           /\ regTxs' = IF c1.pc = "registering" THEN regTxs + 1 ELSE regTxs
                           /\ c1.pc = "registering" => regTxs < MaxRegTxs
                ELSE /\ calls' = [calls EXCEPT ![p] = AwaitRegistry(c)]
                     /\ UNCHANGED <<agentState, regTxs>>
    /\ UNCHANGED <<env, gate, fb, build, cachedIdentity, ledger, ledgerChanges, cachedMetadata, req, clientVars>>

\* the registering build's bootstrap, from the registry's answer on: a
\* token that is not found leaves the agent unregistered
RegisteringBootstrapFinish(p) ==
    /\ build = "registering"
    /\ calls[p].pc = "reading"
    /\ calls[p].fn \in {"bootstrap", "init"}
    /\ \E rpcOk \in BOOLEAN :
         LET c == calls[p]
             identity == getAgentIdentity(ledger, BigInt(c.targetId), rpcOk)
             s == IF identity.found
                    THEN RegisteredState(c.targetId, identity.owner,
                                         identity.agentURI, c.chainId)
                    ELSE UnregisteredState(c.address, c.chainId)
             c1 == AfterBootstrap([c EXCEPT !.readOwner = identity.owner], s, env)
         IN  /\ agentState' = s
             /\ calls' = [calls EXCEPT ![p] = c1]
             /\ regTxs' = IF c1.pc = "registering" THEN regTxs + 1 ELSE regTxs
             /\ c1.pc = "registering" => regTxs < MaxRegTxs
    /\ UNCHANGED <<env, gate, fb, build, cachedIdentity, ledger, ledgerChanges, cachedMetadata, req, clientVars>>

\* a registration transition that builds the state anew
setAgentIdentityFresh(state, agentId, agentAddress, agentURI) ==
    [NullState EXCEPT !.set = TRUE, !.agentId = agentId,
                      !.agentAddress = agentAddress, !.agentURI = agentURI,
                      !.isRegistered = TRUE]

\* a registration transition that leaves the registered flag as it was
setAgentIdentityKeepsFlag(state, agentId, agentAddress, agentURI) ==
    [state EXCEPT !.agentId = agentId, !.agentAddress = agentAddress,
                  !.agentURI = agentURI]

\* setAgentIdentity(agentId, agentAddress, agentURI) on an initialised state
setAgentIdentity(state, agentId, agentAddress, agentURI) ==
    [state EXCEPT !.agentId = agentId, !.agentAddress = agentAddress,
                  !.agentURI = agentURI, !.isRegistered = TRUE]

\* what registerAgent's result string tells its caller: the id of the
\* Registered event, a submitted transaction without an id, or an error
RegisterOutcomes == {"id", "noid", "error"}

\* a start-up that takes every submitted registration for a registered agent
CarriesAgentIdLax(outcome) == outcome \in {"id", "noid"}

\* result.match(/Agent ID: (\d+)/) finds an id in the result string
CarriesAgentId(outcome) == outcome = "id"

\* registerAgent returns: with the agent id of the Registered event, with a
\* receipt that carries none, or with an error text; only the first makes
\* bootstrapAndRegisterIdentity update the state
RegisterDone(p) ==
    /\ calls[p].pc = "registering"
    /\ \E outcome \in RegisterOutcomes :
         /\ agentState' = IF CarriesAgentId(outcome)
                            THEN setAgentIdentity(agentState, MintedId(regTxs),
                                                  WalletAddress(env), buildMetadataURI)
                            ELSE agentState
         /\ calls' = [calls EXCEPT ![p] = [calls[p] EXCEPT !.pc = "returned",
                                                             !.result = outcome]]
    /\ UNCHANGED <<env, gate, fb, build, cachedIdentity, ledger, regTxs, ledgerChanges, cachedMetadata, req, clientVars>>

\* the id arguments loadAgentIdentity is called with ("" for none)
LoadArgs == {"", "5", "7"}

\* a cache test that only accepts the id it is asked for
CacheHitSameIdOnly(cached, agentId) == cached.set /\ cached.agentId = agentId

\* a cache test that answers every call from the cache once it is filled
CacheHitAnyId(cached, agentId) == cached.set

\* cachedIdentity && (!agentId || cachedIdentity.agentId === agentId)
CacheHit(cached, agentId) ==
    cached.set /\ (~Truthy(agentId) \/ cached.agentId = agentId)

\* loadAgentIdentity(agentId?), up to its first await, as caller p runs it
loadAgentIdentity(p, agentId) ==
    /\ calls[p].pc = "idle"
    /\ LET c == [CallIdle EXCEPT !.fn = "load", !.arg = agentId,
                                 !.targetId = OrElse(agentId, env.AGENT_ID),
                                 !.expectedWallet = env.AGENT_WALLET_ADDRESS,
                                 !.chainId = networkChainId(env)]
       IN  IF CacheHit(cachedIdentity, agentId)
             THEN /\ calls' = [calls EXCEPT ![p] = Returned([c EXCEPT !.hit = TRUE],
                                                             cachedIdentity)]
                  /\ UNCHANGED cachedIdentity
           ELSE IF ~Truthy(c.targetId)
             THEN LET s == UnregisteredState(OrElse(c.expectedWallet, ""), c.chainId)
                  IN  /\ cachedIdentity' = s
                      /\ calls' = [calls EXCEPT ![p] = Returned(c, s)]
           ELSE /\ calls' = [calls EXCEPT ![p] = AwaitRegistry(c)]
                /\ UNCHANGED cachedIdentity

\* a call of loadAgentIdentity from anywhere in the process
LoadStart(p) ==
    /\ \E agentId \in LoadArgs : loadAgentIdentity(p, agentId)
    /\ UNCHANGED <<env, gate, fb, build, agentState, ledger, regTxs, ledgerChanges,
                   cachedMetadata, req, clientVars>>

\* loadAgentIdentity, from the registry's answer on
LoadFinish(p) ==
    /\ calls[p].pc = "reading"
    /\ calls[p].fn = "load"
    /\ \E rpcOk \in BOOLEAN :
         LET c == calls[p]
             identity == getAgentIdentity(ledger, BigInt(c.targetId), rpcOk)
             c1 == [c EXCEPT !.readOwner = identity.owner]
         IN  IF ~identity.found
               THEN /\ calls' = [calls EXCEPT ![p] = Threw(c1, "not-found")]
                    /\ UNCHANGED cachedIdentity
             ELSE IF OwnerMismatch(identity.owner, c.expectedWallet)
               THEN /\ calls' = [calls EXCEPT ![p] = Threw(c1, "wallet-mismatch")]
                    /\ UNCHANGED cachedIdentity
             ELSE LET s == RegisteredState(c.targetId, identity.owner,
                                           identity.agentURI, c.chainId)
                  IN  /\ cachedIdentity' = s
                      /\ calls' = [calls EXCEPT ![p] = Returned(c1, s)]
    /\ UNCHANGED <<env, gate, fb, build, agentState, ledger, regTxs, ledgerChanges, cachedMetadata, req, clientVars>>

\* the caller has its result (or its exception); the call is over
CallDone(p) ==
    /\ calls[p].pc \in {"returned", "threw"}
    /\ calls' = [calls EXCEPT ![p] = CallIdle]
    /\ UNCHANGED <<env, gate, fb, build, agentState, cachedIdentity, ledger, regTxs,
                   ledgerChanges, cachedMetadata, req, clientVars>>

Owners == {"0xAA", "0xBB"}

\* a token changes hands on the registry, outside this program
LedgerTransfer ==
    /\ ledgerChanges < MaxLedgerChanges
    /\ \E t \in Tokens, o \in Owners :
         /\ ledger[t] # ""
         /\ ledger[t] # o
         /\ ledger' = [ledger EXCEPT ![t] = o]
    /\ ledgerChanges' = ledgerChanges + 1
    /\ UNCHANGED <<env, gate, fb, build, agentState, cachedIdentity, calls, regTxs, cachedMetadata, req, clientVars>>

\* getAgentState() / getCachedIdentity()
getAgentState == agentState
getCachedIdentity == cachedIdentity

IdentityEnvs ==
    { [EnvDefault EXCEPT !.AGENT_ID = a, !.AGENT_WALLET_ADDRESS = w,
                         !.NETWORK_ID = n, !.REGISTER_IDENTITY = r] :
        a \in {UNSET, "5"}, w \in {UNSET, "0xaa", "0xBB"},
        n \in {UNSET, "ethereum-sepolia"}, r \in {UNSET, "true"} }

IdIdleVars ==
    /\ build = "verifying"
    /\ agentState = NullState
    /\ cachedIdentity = NullState
    /\ ledger = [t \in Tokens |-> ""]
    /\ calls = [p \in Procs |-> CallIdle]
    /\ regTxs = 0
    /\ ledgerChanges = 0
    /\ cachedMetadata = NoMetadata
    /\ req = ReqIdle
    /\ script = ScriptIdle
    /\ hook = HookIdle
    /\ page = PageIdle

InitIdentity ==
    /\ env \in IdentityEnvs
    /\ gate = GateIdle
    /\ fb = FbIdle
    /\ build \in {"verifying", "registering"}
    /\ agentState = NullState
    /\ cachedIdentity = NullState
    /\ ledger \in { [t \in Tokens |-> IF t = 5 THEN o ELSE "0xBB"] : o \in {"", "0xAA"} }
    /\ calls = [p \in Procs |-> CallIdle]
    /\ regTxs = 0
    /\ ledgerChanges = 0
    /\ cachedMetadata = NoMetadata
    /\ req = ReqIdle
    /\ script = ScriptIdle
    /\ hook = HookIdle
    /\ page = PageIdle

NextIdentity ==
    \/ \E p \in Procs : BootstrapStart(p)
    \/ \E p \in Procs : BootstrapFinish(p)
    \/ \E p \in Procs : RegisteringBootstrapStart(p)
    \/ \E p \in Procs : RegisteringBootstrapFinish(p)
    \/ \E p \in Procs : RegisterDone(p)
    \/ \E p \in Procs : LoadStart(p)
    \/ \E p \in Procs : LoadFinish(p)
    \/ \E p \in Procs : CallDone(p)
    \/ LedgerTransfer

SpecIdentity == InitIdentity /\ [][NextIdentity]_vars

(***************************************************************************)
(* The identity cache over a process lifetime: resets, a changing          *)
(* environment and the registration transition called on its own           *)
(***************************************************************************)
\* resetAgentState(): the bootstrap singleton becomes null
ResetAgentState ==
    /\ build = "verifying"
    /\ agentState' = NullState
    /\ UNCHANGED <<env, gate, fb, build, cachedIdentity, ledger, calls, regTxs,
                   ledgerChanges, cachedMetadata, req, clientVars>>

\* clearCache(): the identity cache and the metadata cache become null
ClearCache ==
    /\ cachedIdentity' = NullState
    /\ cachedMetadata' = NoMetadata
    /\ UNCHANGED <<env, gate, fb, build, agentState, ledger, calls, regTxs,
                   ledgerChanges, req, clientVars>>

\* the ids setAgentIdentity is handed by its caller
SetArgs == {"9"}

\* a call of setAgentIdentity(agentId, agentAddress, agentURI) on its own:
\* it throws while the state is null
SetAgentIdentityCall(p) ==
    /\ build = "registering"
    /\ calls[p].pc = "idle"
    /\ \E id \in SetArgs :
         LET c == [CallIdle EXCEPT !.fn = "set", !.arg = id,
                                   !.address = WalletAddress(env)]
         IN  IF ~agentState.set
               THEN /\ calls' = [calls EXCEPT ![p] = Threw(c, "not-initialised")]
                    /\ UNCHANGED agentState
               ELSE LET s == setAgentIdentity(agentState, id, c.address, buildMetadataURI)
                    IN  /\ agentState' = s
                        /\ calls' = [calls EXCEPT ![p] = Returned(c, s)]
    /\ UNCHANGED <<env, gate, fb, build, cachedIdentity, ledger, regTxs, ledgerChanges, cachedMetadata, req, clientVars>>

CacheEnvs ==
    { [EnvDefault EXCEPT !.AGENT_ID = a, !.AGENT_WALLET_ADDRESS = w,
                         !.REGISTER_IDENTITY = r] :
        a \in {UNSET, "5"}, w \in {UNSET, "0xaa"}, r \in {UNSET, "true", "TRUE"} }

\* process.env is edited while the process runs
EnvChange ==
    /\ \E e \in CacheEnvs :
         /\ e # env
         /\ env' = e
    /\ UNCHANGED <<gate, fb, idVars, req, clientVars>>

InitCache ==
    /\ env \in CacheEnvs
    /\ gate = GateIdle
    /\ fb = FbIdle
    /\ build \in {"verifying", "registering"}
    /\ agentState = NullState
    /\ cachedIdentity = NullState
    /\ ledger = [t \in Tokens |-> IF t = 5 THEN "0xAA" ELSE "0xBB"]
    /\ calls = [p \in Procs |-> CallIdle]
    /\ regTxs = 0
    /\ ledgerChanges = 0
    /\ cachedMetadata = NoMetadata
    /\ req = ReqIdle
    /\ script = ScriptIdle
    /\ hook = HookIdle
    /\ page = PageIdle

\* the cache's lifetime is followed through one caller at a time
CacheProcs == {"p1"}

NextCache ==
    \/ \E p \in CacheProcs : BootstrapStart(p)
    \/ \E p \in CacheProcs : BootstrapFinish(p)
    \/ \E p \in CacheProcs : RegisteringBootstrapStart(p)
    \/ \E p \in CacheProcs : RegisteringBootstrapFinish(p)
    \/ \E p \in CacheProcs : RegisterDone(p)
    \/ \E p \in CacheProcs : SetAgentIdentityCall(p)
    \/ \E p \in CacheProcs : LoadStart(p)
    \/ \E p \in CacheProcs : LoadFinish(p)
    \/ \E p \in CacheProcs : CallDone(p)
    \/ LedgerTransfer
    \/ ResetAgentState
    \/ ClearCache
    \/ EnvChange

SpecCache == InitCache /\ [][NextCache]_vars

(***************************************************************************)
(* The registration script (run once, by hand, before deployment)          *)
(***************************************************************************)
requiredEnvVars ==
    {"CDP_API_KEY_ID", "CDP_API_KEY_SECRET", "CDP_WALLET_SECRET", "AGENT_WALLET_ADDRESS"}

\* CHAINS[chainId] is defined
ChainConfigured(chainId) == chainId \in {84532, 11155111}

ScriptExit(code, why) == [script EXCEPT !.pc = "exited", !.exitCode = code, !.why = why]

\* main, up to `await CdpEvmWalletProvider.configureWithWallet`
ScriptStart ==
    /\ script.pc = "idle"
    /\ LET networkId == OrElse(env.NETWORK_ID, DEFAULT_NETWORK_ID)
           chainId   == getChainIdFromNetworkId(networkId)
           s         == [script EXCEPT !.networkId = networkId, !.chainId = chainId]
       IN  script' =
             IF \E v \in requiredEnvVars : ~Truthy(env[v])
               THEN ScriptExit(1, "missing-env")
             ELSE IF ~ChainConfigured(chainId)
               THEN [s EXCEPT !.pc = "exited", !.exitCode = 1, !.why = "unsupported-network"]
             ELSE IF Truthy(env.AGENT_ID)
               THEN [s EXCEPT !.pc = "exited", !.exitCode = 0, !.why = "already-registered"]
             ELSE [s EXCEPT !.pc = "configuring"]
    /\ UNCHANGED <<env, gate, fb, idVars, req, hook, page>>

\* the addresses a configured wallet provider may report
ProviderAddresses == {"0xAA", "0xBB"}

\* walletAddress.toLowerCase() !== agentWalletAddress.toLowerCase()
AddressMismatch(walletAddress, agentWalletAddress) ==
    toLowerCase(walletAddress) # toLowerCase(agentWalletAddress)

\* the wallet provider is configured (or fails to be); the address is
\* compared and the register call is handed to sendTransaction
ScriptWalletReady ==
    /\ script.pc = "configuring"
    /\ \E ok \in BOOLEAN, walletAddress \in ProviderAddresses :
         script' =
           IF ~ok
             THEN ScriptExit(1, "unexpected-error")
           ELSE IF AddressMismatch(walletAddress, env.AGENT_WALLET_ADDRESS)
             THEN [script EXCEPT !.pc = "exited", !.exitCode = 1,
                                 !.why = "wallet-mismatch",
                                 !.walletAddress = walletAddress]
           ELSE [script EXCEPT !.pc = "sending", !.walletAddress = walletAddress,
                               !.sent = @ + 1]
    /\ UNCHANGED <<env, gate, fb, idVars, req, hook, page>>

\* sendTransaction and the receipt come back
ScriptTxDone ==
    /\ script.pc = "sending"
    /\ \E outcome \in {"send-failed", "reverted", "noid", "id"} :
         script' =
           CASE outcome = "send-failed" -> ScriptExit(1, "registration-failed")
             [] outcome = "reverted"    -> ScriptExit(1, "transaction-failed")
             [] outcome = "noid"        -> ScriptExit(1, "no-agent-id")
             [] OTHER -> [script EXCEPT !.pc = "exited", !.exitCode = 0,
                                        !.why = "registered",
                                        !.agentId = MintedId(1)]
    /\ UNCHANGED <<env, gate, fb, idVars, req, hook, page>>

ScriptEnvs ==
    { [EnvDefault EXCEPT !.CDP_API_KEY_ID = k, !.CDP_API_KEY_SECRET = ks,
                         !.CDP_WALLET_SECRET = ws, !.AGENT_WALLET_ADDRESS = w,
                         !.NETWORK_ID = n, !.AGENT_ID = a] :
        k \in {UNSET, "key"}, ks \in {UNSET, "secret"}, ws \in {UNSET, "wsecret"},
        w \in {UNSET, "0xaa"}, n \in {UNSET, "ethereum-sepolia", "base-mainnet"},
        a \in {UNSET, "5"} }

InitScript ==
    /\ env \in ScriptEnvs
    /\ gate = GateIdle
    /\ fb = FbIdle
    /\ IdIdleVars

NextScript == ScriptStart \/ ScriptWalletReady \/ ScriptTxDone

SpecScript == InitScript /\ [][NextScript]_vars

(***************************************************************************)
(* The useAgent hook (browser): chat messages and the pending image request *)
(***************************************************************************)
MaxMessages == 4
MaxConfirms == 3

Prompts == {"a cat", "a dog"}

\* what /api/agent answers: nothing (fetch failed), a text, or a text with
\* a generateImage request
AgentAnswers ==
    {[ok |-> FALSE, text |-> FALSE, prompt |-> NULL]}
    \cup [ok : {TRUE}, text : BOOLEAN, prompt : Prompts \cup {NULL}]

\* sendMessage(input), up to `await messageAgent(input)`
HookSend ==
    /\ ~hook.inflight
    /\ Len(hook.messages) < MaxMessages
    /\ \E blank \in BOOLEAN :
         hook' = IF blank THEN hook
                 ELSE [hook EXCEPT !.messages = Append(@, "user"),
                                   !.isThinking = TRUE, !.inflight = TRUE]
    /\ UNCHANGED <<env, gate, fb, idVars, req, script, page>>

\* sendMessage, from the agent's answer on
HookResponse ==
    /\ hook.inflight
    /\ \E data \in AgentAnswers :
         hook' = [hook EXCEPT
                    !.messages = IF data.ok /\ data.text THEN Append(@, "agent") ELSE @,
                    !.pendingImageRequest = IF data.ok /\ data.prompt # NULL
                                              THEN data.prompt ELSE @,
                    !.served = IF data.ok /\ data.prompt # NULL THEN 0 ELSE @,
                    !.isThinking = FALSE, !.inflight = FALSE]
    /\ UNCHANGED <<env, gate, fb, idVars, req, script, page>>

\* React renders the component again: the callbacks are created anew and
\* close over the current state
HookRender ==
    /\ hook.rendered # hook.pendingImageRequest
    /\ hook' = [hook EXCEPT !.rendered = hook.pendingImageRequest]
    /\ UNCHANGED <<env, gate, fb, idVars, req, script, page>>

\* a confirm that hands out the prompt and leaves the request pending
confirmPendingImageKeeps(h) ==
    IF h.rendered = NULL
      THEN [h EXCEPT !.lastConfirm = NULL, !.confirms = @ + 1]
      ELSE [h EXCEPT !.lastConfirm = h.rendered, !.confirms = @ + 1,
                     !.served = @ + 1]

\* confirmPendingImage(): null when the render saw nothing pending, else
\* the prompt, and the pending request is set to null
confirmPendingImage(h) ==
    IF h.rendered = NULL
      THEN [h EXCEPT !.lastConfirm = NULL, !.confirms = @ + 1]
      ELSE [h EXCEPT !.lastConfirm = h.rendered, !.confirms = @ + 1,
                     !.served = @ + 1, !.pendingImageRequest = NULL]

\* cancelPendingImage(): the cancellation message if the render saw a
\* pending request, and the pending request is set to null
cancelPendingImage(h) ==
    [h EXCEPT !.messages = IF h.rendered # NULL THEN Append(@, "cancelled") ELSE @,
              !.pendingImageRequest = NULL]

HookConfirm ==
    /\ hook.confirms < MaxConfirms
    /\ hook' = confirmPendingImage(hook)
    /\ UNCHANGED <<env, gate, fb, idVars, req, script, page>>

HookCancel ==
    /\ Len(hook.messages) < MaxMessages
    /\ hook' = cancelPendingImage(hook)
    /\ hook' # hook
    /\ UNCHANGED <<env, gate, fb, idVars, req, script, page>>

InitHook ==
    /\ env = EnvDefault
    /\ gate = GateIdle
    /\ fb = FbIdle
    /\ IdIdleVars

NextHook == HookSend \/ HookResponse \/ HookRender \/ HookConfirm \/ HookCancel

SpecHook == InitHook /\ [][NextHook]_vars

(***************************************************************************)
(* Identity requests that overlap: every route calls loadAgentIdentity()   *)
(* without an id, and a second request can start while the first awaits    *)
(* the registry                                                            *)
(***************************************************************************)
\* a route's call of loadAgentIdentity() on behalf of request p
RequestLoad(p) ==
    /\ loadAgentIdentity(p, "")
    /\ UNCHANGED <<env, gate, fb, build, agentState, ledger, regTxs, ledgerChanges,
                   cachedMetadata, req, clientVars>>

InitRace ==
    /\ env \in IdentityEnvs
    /\ gate = GateIdle
    /\ fb = FbIdle
    /\ build = "verifying"
    /\ agentState = NullState
    /\ cachedIdentity = NullState
    /\ ledger \in { [t \in Tokens |-> IF t = 5 THEN o ELSE "0xBB"] : o \in {"", "0xAA"} }
    /\ calls = [p \in Procs |-> CallIdle]
    /\ regTxs = 0
    /\ ledgerChanges = 0
    /\ cachedMetadata = NoMetadata
    /\ req = ReqIdle
    /\ script = ScriptIdle
    /\ hook = HookIdle
    /\ page = PageIdle

NextRace ==
    \/ \E p \in Procs : RequestLoad(p)
    \/ \E p \in Procs : LoadFinish(p)
    \/ \E p \in Procs : CallDone(p)
    \/ LedgerTransfer

SpecRace == InitRace /\ [][NextRace]_vars

(***************************************************************************)
(* The Home page (browser): endpoint tests and the proof of payment        *)
(***************************************************************************)
FreeEndpoints == {"/api/agent", "/api/agent/premium (GET)"}
PaidEndpoints == {"/api/agent/premium", "/api/agent/image"}

\* the handler's first lines: the error and the shown response are cleared
PageCleared == [page EXCEPT !.endpointError = NULL, !.premiumResponse = NULL]

\* testFreeEndpoint / testPremiumInfo: the endpoint is recorded and the
\* payment hash cleared; the proof of payment is kept
PageTestFree ==
    /\ \E endpoint \in FreeEndpoints, fetchOk \in BOOLEAN :
         page' = IF fetchOk
                   THEN [PageCleared EXCEPT !.premiumResponse = endpoint,
                                            !.lastEndpoint = endpoint,
                                            !.lastPaymentTxHash = NULL]
                   ELSE [PageCleared EXCEPT !.endpointError = "fetch failed"]
    /\ page' # page
    /\ UNCHANGED <<env, gate, fb, idVars, req, script, hook>>

\* what getPaymentSettleResponse decodes from the response headers: nothing,
\* or the settlement with its transaction, payer and network
SettleResponses ==
    {NoSettlement} \cup
    [present : {TRUE}, transaction : TxHashes, payer : Payers \cup {""},
     network : Networks \cup {<<"", 0>>}]

PAYMENT_CHAIN_ID == 84532

\* the ProofOfPayment built from a decoded settlement response; a response
\* without a network names the payment chain
proofOfPayment(paymentResponse) ==
    [ set |-> TRUE, fromAddress |-> paymentResponse.payer,
      toAddress |-> "(agent wallet)",
      chainId |-> IF paymentResponse.network[1] # ""
                    THEN paymentResponse.network[2] ELSE PAYMENT_CHAIN_ID,
      txHash |-> paymentResponse.transaction ]

\* testPremiumWithPayment / generateImageWithPayment: a wallet that is not
\* ready or a failed request leaves an error; a good answer records the
\* endpoint and, when a settlement came with it, the hash and the proof
PageTestPaid ==
    /\ \E endpoint \in PaidEndpoints, walletReady \in BOOLEAN, responseOk \in BOOLEAN,
          paymentResponse \in SettleResponses :
         page' =
           IF ~walletReady
             THEN [page EXCEPT !.endpointError = "wallet not ready"]
           ELSE IF ~responseOk
             THEN [PageCleared EXCEPT !.endpointError = "request failed"]
           ELSE IF paymentResponse.present
             THEN [PageCleared EXCEPT
                     !.premiumResponse = endpoint,
                     !.lastEndpoint = endpoint,
                     !.lastPaymentTxHash = paymentResponse.transaction,
                     !.lastProofOfPayment = proofOfPayment(paymentResponse)]
           ELSE [PageCleared EXCEPT !.premiumResponse = endpoint,
                                    !.lastEndpoint = endpoint]
    /\ page' # page
    /\ UNCHANGED <<env, gate, fb, idVars, req, script, hook>>

InitPage ==
    /\ env = EnvDefault
    /\ gate = GateIdle
    /\ fb = FbIdle
    /\ IdIdleVars

NextPage == PageTestFree \/ PageTestPaid

SpecPage == InitPage /\ [][NextPage]_vars

(***************************************************************************)
(* Identity bootstrap over the configurations an operator can write        *)
(***************************************************************************)
ConfigEnvs ==
    { [EnvDefault EXCEPT !.AGENT_ID = a, !.AGENT_WALLET_ADDRESS = w,
                         !.NETWORK_ID = n, !.REGISTER_IDENTITY = r] :
        a \in {UNSET, "5", "0x5", "-5", "abc"}, w \in {UNSET, "0xaa"},
        n \in {UNSET, "ethereum-sepolia", "base-mainnet"}, r \in {UNSET, "true"} }

InitConfig ==
    /\ env \in ConfigEnvs
    /\ gate = GateIdle
    /\ fb = FbIdle
    /\ build \in {"verifying", "registering"}
    /\ agentState = NullState
    /\ cachedIdentity = NullState
    /\ ledger = [t \in Tokens |-> IF t = 5 THEN "0xAA" ELSE "0xBB"]
    /\ calls = [p \in Procs |-> CallIdle]
    /\ regTxs = 0
    /\ ledgerChanges = 0
    /\ cachedMetadata = NoMetadata
    /\ req = ReqIdle
    /\ script = ScriptIdle
    /\ hook = HookIdle
    /\ page = PageIdle

NextConfig ==
    \/ \E p \in CacheProcs : BootstrapStart(p)
    \/ \E p \in CacheProcs : BootstrapFinish(p)
    \/ \E p \in CacheProcs : RegisteringBootstrapStart(p)
    \/ \E p \in CacheProcs : RegisteringBootstrapFinish(p)
    \/ \E p \in CacheProcs : RegisterDone(p)
    \/ \E p \in CacheProcs : LoadStart(p)
    \/ \E p \in CacheProcs : LoadFinish(p)
    \/ \E p \in CacheProcs : CallDone(p)
    \/ LedgerTransfer

SpecConfig == InitConfig /\ [][NextConfig]_vars

(***************************************************************************)
(* The read-only routes: /api/agent/reputation, /api/agent/identity and    *)
(* GET /api/agent/premium                                                  *)
(***************************************************************************)
\* the caller under which a route handler runs loadAgentIdentity
RouteCaller == "p1"

\* the agentId query parameter ("" when it is not given)
Queries == {"", "7", "11155111:7"}

\* agentId.includes(":")
IncludesColon(agentId) == agentId \in {"11155111:7"}

\* `${state.chainId}:${agentId}` unless the id already carries a prefix; the
\* pair stands for the two parts around the colon
FullAgentId(agentId, chainId) ==
    IF IncludesColon(agentId) THEN <<0, agentId>> ELSE <<chainId, agentId>>

\* a field the SDK left undefined
Undefined == -1

\* x ?? 0
OrZero(x) == IF x = Undefined THEN 0 ELSE x

\* what sdk.getReputationSummary resolves to when it succeeds
Summaries ==
    { [count |-> 3, averageValue |-> 80],
      [count |-> Undefined, averageValue |-> Undefined] }

\* what sdk.searchFeedback resolves to when it succeeds
FeedbackLists ==
    { <<>>,
      << [hasId |-> TRUE, id |-> <<"7", "0xR1", "1">>, agentId |-> "7",
          reviewer |-> "0xR1", value |-> 90],
         [hasId |-> FALSE, id |-> <<>>, agentId |-> "7",
          reviewer |-> "0xR2", value |-> Undefined] >> }

\* the route's view of one feedback entry
TransformFeedback(f) ==
    [ id |-> IF f.hasId THEN f.id ELSE <<f.agentId, f.reviewer, "0">>,
      reviewer |-> f.reviewer,
      value |-> OrZero(f.value) ]

\* a reputation read whose failure is not caught
SummaryOrElseThrows(ok, summary) ==
    IF ok THEN [threw |-> FALSE, value |-> summary]
    ELSE [threw |-> TRUE, value |-> NoSummary]

\* sdk.getReputationSummary(id).catch(() => ({count: 0, averageValue: 0}))
SummaryOrElse(ok, summary) ==
    [threw |-> FALSE, value |-> IF ok THEN summary ELSE NoSummary]

\* sdk.searchFeedback({agentId}).catch(() => [])
FeedbackOrElse(ok, list) == IF ok THEN list ELSE <<>>

RouteError(status, text) ==
    [NoRouteResponse EXCEPT !.status = status, !.error = text]

\* a handler without a catch block: the exception leaves it, no response
CaughtErrorRethrown(text) == NoRouteResponse

\* catch (error): a JSON body with error and message, status 500
CaughtError(text) == RouteError(500, text)

\* the first lines of both identity-reading handlers: the cached identity,
\* or a loadAgentIdentity() that is awaited
RouteReceive(route, query) ==
    /\ req.pc = "idle"
    /\ IF getCachedIdentity.set
         THEN /\ req' = [ReqIdle EXCEPT !.pc = "loaded", !.route = route,
                                        !.query = query, !.state = getCachedIdentity]
              /\ UNCHANGED <<calls, cachedIdentity>>
         ELSE /\ loadAgentIdentity(RouteCaller, "")
              /\ req' = [ReqIdle EXCEPT !.pc = "loading", !.route = route,
                                        !.query = query, !.caller = RouteCaller]
    /\ UNCHANGED <<env, gate, fb, build, agentState, ledger, regTxs, ledgerChanges,
                   cachedMetadata, clientVars>>

\* GET /api/agent/reputation arrives
ReputationReceive == \E q \in Queries : RouteReceive("reputation", q)

\* GET /api/agent/identity arrives
IdentityReceive == RouteReceive("identity", "")

\* the awaited loadAgentIdentity settles: its state goes on to the handler,
\* its exception to the handler's catch block
RouteLoaded ==
    /\ req.pc = "loading"
    /\ calls[req.caller].pc \in {"returned", "threw"}
    /\ req' = IF calls[req.caller].pc = "threw"
                THEN [req EXCEPT !.pc = "done",
                                 !.response = CaughtError(calls[req.caller].error)]
                ELSE [req EXCEPT !.pc = "loaded", !.state = calls[req.caller].ret]
    /\ calls' = [calls EXCEPT ![req.caller] = CallIdle]
    /\ UNCHANGED <<env, gate, fb, build, agentState, cachedIdentity, ledger, regTxs,
                   ledgerChanges, cachedMetadata, clientVars>>

\* the rest of the reputation handler: the agent id, then both SDK reads
\* in parallel, each with its own fallback
ReputationRespond ==
    /\ req.pc = "loaded"
    /\ req.route = "reputation"
    /\ LET agentId == IF Truthy(req.query) THEN req.query ELSE req.state.agentId
       IN  IF agentId = NULL \/ agentId = ""
             THEN req' = [req EXCEPT !.pc = "done",
                                     !.response = RouteError(404, "Agent not registered")]
             ELSE \E summaryOk \in BOOLEAN, feedbackOk \in BOOLEAN,
                     summary \in Summaries, list \in FeedbackLists :
                    LET s == SummaryOrElse(summaryOk, summary)
                        f == FeedbackOrElse(feedbackOk, list)
                    IN  req' = [req EXCEPT
                          !.pc = "done",
                          !.sdk = [attempted |-> TRUE,
                                   summaryOk |-> summaryOk, feedbackOk |-> feedbackOk,
                                   summary |-> IF summaryOk THEN summary ELSE NoSummary,
                                   list |-> IF feedbackOk THEN list ELSE <<>>],
                          !.response =
                            IF s.threw
                              THEN RouteError(500, "Failed to get agent reputation")
                              ELSE [NoRouteResponse EXCEPT
                                      !.status = 200,
                                      !.agentId = FullAgentId(agentId, req.state.chainId),
                                      !.summary = [count |-> OrZero(s.value.count),
                                                   averageValue |->
                                                     OrZero(s.value.averageValue)],
                                      !.feedback = [i \in 1..Len(f) |->
                                                      TransformFeedback(f[i])]]]
    /\ UNCHANGED <<env, gate, fb, idVars, clientVars>>

\* the metadata a gateway serves for a URI
MetadataAt(uri) == [set |-> TRUE, uri |-> uri, name |-> "Demo Agent"]

\* the rest of the identity handler: metadata from the cache or, for a
\* registered agent, from the gateway (a failed fetch is not fatal), then
\* the combined response
IdentityRespond ==
    /\ req.pc = "loaded"
    /\ req.route = "identity"
    /\ LET state == req.state
           wantsFetch == /\ ~cachedMetadata.set
                         /\ state.isRegistered
                         /\ state.agentURI # NULL
                         /\ state.agentURI # ""
       IN  \E fetchOk \in BOOLEAN :
             LET metadata == IF ~wantsFetch THEN cachedMetadata
                             ELSE IF fetchOk THEN MetadataAt(state.agentURI)
                             ELSE NoMetadata
             IN  /\ cachedMetadata' = IF wantsFetch /\ fetchOk THEN metadata
                                      ELSE cachedMetadata
                 /\ req' = [req EXCEPT
                       !.pc = "done",
                       !.response = [NoRouteResponse EXCEPT
                                       !.status = 200,
                                       !.identity = state,
                                       !.metadata = metadata]]
    /\ UNCHANGED <<env, gate, fb, build, agentState, cachedIdentity, ledger, calls,
                   regTxs, ledgerChanges, clientVars>>

\* payment info that names the default price whatever is configured
GetPaymentInfoStatic(e) ==
    [ scheme |-> "exact", price |-> "$0.001",
      network |-> paymentConfig(e).network, payTo |-> paymentConfig(e).payTo ]

\* the payment object of GET /api/agent/premium
GetPaymentInfo(e) ==
    [ scheme |-> paymentConfig(e).scheme, price |-> paymentConfig(e).price,
      network |-> paymentConfig(e).network, payTo |-> paymentConfig(e).payTo ]

\* GET /api/agent/premium: endpoint info, no payment involved
PremiumGET ==
    /\ req.pc = "idle"
    /\ req' = [ReqIdle EXCEPT !.pc = "done", !.route = "premium",
                              !.response = [NoRouteResponse EXCEPT
                                              !.status = 200,
                                              !.payment = GetPaymentInfo(env)]]
    /\ UNCHANGED <<env, gate, fb, idVars, clientVars>>

\* the response has gone out; the next request can come
RouteRespond ==
    /\ req.pc = "done"
    /\ req' = ReqIdle
    /\ UNCHANGED <<env, gate, fb, idVars, clientVars>>

RouteEnvs ==
    { [EnvDefault EXCEPT !.AGENT_ID = a, !.AGENT_WALLET_ADDRESS = w] :
        a \in {UNSET, "5"}, w \in {UNSET, "0xaa", "0xBB"} }

InitRoutes ==
    /\ env \in RouteEnvs
    /\ gate = GateIdle
    /\ fb = FbIdle
    /\ build = "verifying"
    /\ agentState = NullState
    /\ cachedIdentity = NullState
    /\ ledger \in { [t \in Tokens |-> IF t = 5 THEN o ELSE "0xBB"] : o \in {"", "0xAA"} }
    /\ calls = [p \in Procs |-> CallIdle]
    /\ regTxs = 0
    /\ ledgerChanges = 0
    /\ cachedMetadata = NoMetadata
    /\ req = ReqIdle
    /\ script = ScriptIdle
    /\ hook = HookIdle
    /\ page = PageIdle

NextRoutes ==
    \/ ReputationReceive
    \/ IdentityReceive
    \/ LoadFinish(RouteCaller)
    \/ RouteLoaded
    \/ ReputationRespond
    \/ IdentityRespond
    \/ RouteRespond
    \/ LedgerTransfer
    \/ ClearCache

SpecRoutes == InitRoutes /\ [][NextRoutes]_vars

(***************************************************************************)
(* The identity cache and the metadata cache under every use of their API  *)
(***************************************************************************)
\* a caller other than the routes: anything that imports the identity module
ApiCaller == "p2"

\* the URIs fetchAgentMetadata is called with ("" for none)
MetadataArgs == {"", "ipfs://five", "ipfs://seven"}

\* fetchAgentMetadata(ipfsUri?): the cached object if it carries the same
\* URI, else the gateway's answer, cached under the URI it was fetched from;
\* no URI at all, or a failed fetch, throws and caches nothing
FetchAgentMetadata ==
    /\ \E ipfsUri \in MetadataArgs, fetchOk \in BOOLEAN :
         LET uri == IF Truthy(ipfsUri) THEN ipfsUri
                    ELSE IF cachedIdentity.set /\ cachedIdentity.agentURI # NULL
                      THEN cachedIdentity.agentURI
                    ELSE ""
         IN  /\ uri # ""
             /\ ~(cachedMetadata.set /\ cachedMetadata.uri = uri)
             /\ fetchOk
             /\ cachedMetadata' = MetadataAt(uri)
    /\ UNCHANGED <<env, gate, fb, build, agentState, cachedIdentity, ledger, calls,
                   regTxs, ledgerChanges, req, clientVars>>

NextMetadata ==
    \/ IdentityReceive
    \/ LoadFinish(RouteCaller)
    \/ RouteLoaded
    \/ IdentityRespond
    \/ RouteRespond
    \/ LoadStart(ApiCaller)
    \/ LoadFinish(ApiCaller)
    \/ CallDone(ApiCaller)
    \/ FetchAgentMetadata

SpecMetadata == InitRoutes /\ [][NextMetadata]_vars


(***************************************************************************)
(* The feedback routes and the payment gate as specifications of their own *)
(***************************************************************************)
FeedbackEnvs ==
    { [EnvDefault EXCEPT !.UPLOAD_FEEDBACK_TO_IPFS = u, !.PINATA_JWT = j] :
        u \in {UNSET, "true", "false", "TRUE"}, j \in {UNSET, "", "jwt"} }

InitFeedback ==
    /\ env \in FeedbackEnvs
    /\ gate = GateIdle
    /\ fb = FbIdle
    /\ IdIdleVars

NextFeedback == FeedbackPOST \/ FeedbackGET \/ FeedbackRespond

SpecFeedback == InitFeedback /\ [][NextFeedback]_vars


GateEnvs ==
    { [EnvDefault EXCEPT !.CHAIN_ID = c, !.X402_PRICE = p, !.X402_IMAGE_PRICE = ip,
                         !.AGENT_WALLET_ADDRESS = w, !.PINATA_JWT = j] :
        c \in {UNSET, "11155111"}, p \in {UNSET, "$0.005"}, ip \in {UNSET, "$0.005"},
        w \in {UNSET, "0xAA"}, j \in {UNSET, "jwt"} }

InitGate ==
    /\ env \in GateEnvs
    /\ gate = GateIdle
    /\ fb = FbIdle
    /\ IdIdleVars

NextGate == Receive \/ Inspect \/ VerifyDone \/ HandlerReturn \/ SettleDone \/ Respond

SpecGate == InitGate /\ [][NextGate]_vars

\* the premium endpoint with both of its methods
InitPremium ==
    /\ env \in GateEnvs
    /\ gate = GateIdle
    /\ fb = FbIdle
    /\ IdIdleVars

NextPremium ==
    \/ Receive
    \/ Inspect
    \/ VerifyDone
    \/ HandlerReturn
    \/ SettleDone
    \/ Respond
    \/ PremiumGET
    \/ RouteRespond

SpecPremium == InitPremium /\ [][NextPremium]_vars

(***************************************************************************)
(* Properties of the payment gate (checked under SpecGate)                 *)
(***************************************************************************)

\* C1: a request that carries no payment proof header never reaches the
\* wrapped handler and never triggers a settlement, at any point of its run.
C1_NoProofNoHandlerNoSettle ==
    (gate.pc # "idle" /\ ~gate.header.present) =>
        /\ gate.handlerCalls = 0
        /\ gate.settleCalls = 0
        /\ gate.pc \notin {"handler-invoked", "settling"}
        /\ gate.log = <<>>
        /\ ~gate.response.settlement.present

\* a request without a header has been answered
C1_Witness ==
    /\ gate.pc = "done"
    /\ ~gate.header.present
    /\ gate.response.status = 402

\* C2: when the payment was verified and the wrapped handler returned a
\* status of 400 or more, no settlement is ever invoked for that request.
C2_FailedHandlerNeverSettled ==
    (gate.verified /\ gate.handlerStatus >= 400) =>
        /\ gate.settleCalls = 0
        /\ "settle" \notin {gate.log[i] : i \in DOMAIN gate.log}
        /\ ~gate.response.settlement.present

\* a verified payment whose handler answered 400 has been answered
C2_Witness ==
    /\ gate.pc = "done"
    /\ gate.verified
    /\ gate.handlerStatus = 400
    /\ gate.response.status = 400

\* what a finished run looks like from outside
RunSettled ==
    /\ gate.settleCalls = 1
    /\ gate.response.settlement.present
RunSettleFailed ==
    /\ gate.settleCalls = 1
    /\ ~gate.response.settlement.present
RunNotSettled ==
    /\ gate.handlerCalls = 1
    /\ gate.handlerStatus >= 400
    /\ gate.settleCalls = 0
    /\ ~gate.response.settlement.present
RunVerificationFailed ==
    /\ gate.handlerCalls = 0
    /\ gate.settleCalls = 0
    /\ gate.response.status = 402
    /\ ~gate.response.settlement.present

\* the steps taken so far are an initial part of verify, handler, settle
StepsInOrder ==
    /\ Len(gate.log) <= 3
    /\ gate.log = SubSeq(<<"verify", "handler", "settle">>, 1, Len(gate.log))

SettleOnlyAfterSuccess ==
    /\ gate.settleCalls <= 1
    /\ gate.settleCalls = 1 =>
         /\ gate.verified
         /\ gate.handlerCalls = 1
         /\ gate.handlerStatus > 0
         /\ gate.handlerStatus < 400

SettlementAttached ==
    RunSettled =>
        /\ gate.response.status = gate.handlerStatus
        /\ gate.response.settlement.transaction \in TxHashes
        /\ gate.response.settlement.payer = gate.header.payer
        /\ gate.response.settlement.network = gate.header.network

\* C3 as stated: the steps come in the order verify, handler, settle, the
\* settlement is attempted at most once and only after a verified payment
\* and a handler status below 400, and every run ends in exactly one of
\* settled, not-settled or verification-failed, the settlement attached
\* when it ends settled.
C3_Original ==
    /\ StepsInOrder
    /\ SettleOnlyAfterSuccess
    /\ SettlementAttached
    /\ gate.pc = "done" =>
         \/ RunSettled /\ ~RunNotSettled /\ ~RunVerificationFailed
         \/ ~RunSettled /\ RunNotSettled /\ ~RunVerificationFailed
         \/ ~RunSettled /\ ~RunNotSettled /\ RunVerificationFailed

\* C3 (amended): as C3, with a fourth way for a run to end: the settlement
\* was attempted and failed, and nothing is attached to the response.
C3_RunShape ==
    /\ StepsInOrder
    /\ SettleOnlyAfterSuccess
    /\ SettlementAttached
    /\ gate.pc = "done" =>
         Cardinality({ k \in 1..4 :
             CASE k = 1 -> RunSettled
               [] k = 2 -> RunSettleFailed
               [] k = 3 -> RunNotSettled
               [] OTHER -> RunVerificationFailed }) = 1

\* a run has ended settled, all three steps taken
C3_Witness ==
    /\ gate.pc = "done"
    /\ gate.log = <<"verify", "handler", "settle">>
    /\ RunSettled
    /\ gate.response.status = 200

\* the terms a route accepts, as configured in the environment
ConfiguredTerms ==
    [ scheme  |-> "exact",
      price   |-> IF gate.route = "premium"
                    THEN (IF Truthy(env.X402_PRICE) THEN env.X402_PRICE ELSE "$0.001")
                    ELSE (IF Truthy(env.X402_IMAGE_PRICE) THEN env.X402_IMAGE_PRICE
                          ELSE "$0.01"),
      network |-> <<"eip155", IF Truthy(env.CHAIN_ID) THEN ParseInt(env.CHAIN_ID)
                              ELSE 84532>>,
      payTo   |-> IF Truthy(env.AGENT_WALLET_ADDRESS) THEN env.AGENT_WALLET_ADDRESS
                  ELSE "" ]

ProofAbsentOrWrong ==
    \/ ~gate.header.present
    \/ gate.header.price # ConfiguredTerms.price
    \/ gate.header.network # ConfiguredTerms.network
    \/ gate.header.payTo # ConfiguredTerms.payTo

\* C4: a request whose payment proof is absent, or is not for the
\* configured price, network or payee, ends with a 402 response carrying
\* the accepted terms (scheme, price, network, payee); the handler is not
\* called and nothing is settled.
C4_PaymentRequiredCarriesTerms ==
    /\ (gate.pc \notin {"idle", "unpaid", "verifying"} /\ ProofAbsentOrWrong) =>
         /\ gate.pc = "done"
         /\ gate.response.status = 402
         /\ gate.response.accepts = <<ConfiguredTerms>>
         /\ gate.handlerCalls = 0
         /\ gate.settleCalls = 0
         /\ ~gate.response.settlement.present
    /\ (gate.pc \in {"unpaid", "verifying"} /\ ProofAbsentOrWrong) =>
         gate.handlerCalls = 0 /\ gate.settleCalls = 0

\* a proof for the wrong price on the image route has been refused
C4_Witness ==
    /\ gate.pc = "done"
    /\ gate.route = "image"
    /\ gate.header.present
    /\ gate.header.sigOk
    /\ gate.header.price # ConfiguredTerms.price
    /\ gate.header.network = ConfiguredTerms.network
    /\ gate.header.payTo = ConfiguredTerms.payTo
    /\ gate.response.status = 402

(***************************************************************************)
(* Properties of the feedback writer (checked under SpecFeedback)          *)
(***************************************************************************)
PostHandled == fb.pc = "post" /\ fb.body.parsed = "object"

\* the upload to the content store was attempted and failed
UploadFailed == fb.uploads = 1 /\ fb.resp.status = 500

IsIntegerInRange(score) ==
    /\ score.kind = "number"
    /\ score.twice % 2 = 0
    /\ score.twice \div 2 >= 0
    /\ score.twice \div 2 <= 100

\* C5: a submission succeeds (a uri and a hash are returned) if and only
\* if the score is an integer with 0 <= score <= 100.
C5_AcceptedIffIntegerInRange ==
    (PostHandled /\ ~UploadFailed) =>
        ((fb.resp.hasUri /\ fb.resp.hasHash) <=> IsIntegerInRange(fb.body.score))

\* C6: a rejected score (not a number, below 0 or above 100) is answered
\* with status 400, without a uri or a hash, and without any upload to
\* the content store.
C6_RejectedScoreIs400 ==
    /\ (PostHandled /\ ( \/ fb.body.score.kind # "number"
                         \/ fb.body.score.twice < 0
                         \/ fb.body.score.twice > 200 )) =>
         fb.resp.status = 400
    /\ (fb.pc = "post" /\ fb.resp.status = 400) =>
         /\ ~fb.resp.hasUri
         /\ fb.resp.uri = NoUri
         /\ ~fb.resp.hasHash
         /\ fb.resp.hash = NoHash
         /\ fb.uploads = 0
         /\ fb.pinned = <<>>

\* score 150 has been rejected although the upload is enabled and configured
C6_Witness ==
    /\ PostHandled
    /\ fb.body.score = ScoreNum(300)
    /\ env.UPLOAD_FEEDBACK_TO_IPFS = "true"
    /\ env.PINATA_JWT = "jwt"
    /\ fb.resp.status = 400

\* C7: for an accepted submission the returned hash is the hash of the
\* very bytes the returned uri refers to: the decoded base64 payload of
\* the data URI, or the content pinned under the ipfs URI.
C7_HashIsOfStoredBytes ==
    (fb.pc = "post" /\ fb.resp.status = 200) =>
        /\ fb.resp.hasUri /\ fb.resp.hasHash
        /\ fb.resp.uri.scheme \in {"data", "ipfs"}
        /\ fb.resp.uri.scheme = "data" =>
             keccak256(toHex(Base64Decode(fb.resp.uri.payload))) = fb.resp.hash
        /\ fb.resp.uri.scheme = "ipfs" =>
             /\ fb.pinned = fb.resp.uri.payload
             /\ keccak256(toHex(fb.pinned)) = fb.resp.hash

\* a data URI has been returned for a payload with an escaped comment and
\* a proof of payment
C7_Witness ==
    /\ fb.pc = "post"
    /\ fb.resp.status = 200
    /\ fb.resp.uri.scheme = "data"
    /\ fb.body.comment = S_quote
    /\ fb.body.proofOfPayment.present
    /\ Len(fb.resp.uri.payload) > 0

UploadEnabledAndConfigured ==
    /\ env.UPLOAD_FEEDBACK_TO_IPFS = "true"
    /\ env.PINATA_JWT \notin {UNSET, ""}

\* C8: an accepted submission returns an ipfs URI with uploadedToIpfs =
\* true exactly when UPLOAD_FEEDBACK_TO_IPFS is "true" and PINATA_JWT is
\* set (to a non-empty value), and a base64 data URI with uploadedToIpfs =
\* false otherwise; GET /api/feedback reports that same condition.
C8_UriKindFollowsConfiguration ==
    /\ (fb.pc = "post" /\ fb.resp.status = 200) =>
         IF UploadEnabledAndConfigured
           THEN fb.resp.uri.scheme = "ipfs" /\ fb.resp.uploadedToIpfs /\ fb.uploads = 1
           ELSE fb.resp.uri.scheme = "data" /\ ~fb.resp.uploadedToIpfs /\ fb.uploads = 0
    /\ fb.pc = "get" => (fb.ipfsEnabled <=> UploadEnabledAndConfigured)

\* an ipfs URI has been returned
C8_Witness ==
    /\ fb.pc = "post"
    /\ fb.resp.status = 200
    /\ fb.resp.uri.scheme = "ipfs"
    /\ fb.resp.uploadedToIpfs

(***************************************************************************)
(* Properties of identity bootstrap (checked under SpecIdentity)           *)
(***************************************************************************)
\* the call runs with no agent id: none configured and none passed
NoIdGiven(c) == c.fn # "none" /\ ~Truthy(c.targetId)

\* the call has the state bootstrap gave it
HasBootstrapped(c) == c.pc \in {"returned", "registering"}

VerifiesOwner(c) == c.fn = "load" \/ (c.fn = "bootstrap" /\ build = "verifying")

\* the owner the call read differs from the expected wallet, case aside
ReadMismatch(c) ==
    /\ c.reads = 1
    /\ c.readOwner # ""
    /\ Truthy(c.expectedWallet)
    /\ toLowerCase(c.readOwner) # toLowerCase(c.expectedWallet)

FailedOnMismatch(c) == c.pc = "threw" /\ c.error = "wallet-mismatch"

\* the cache the call's module keeps, now and after the step
CacheOf(c) == IF c.fn = "load" THEN getCachedIdentity ELSE getAgentState
CacheOfNext(c) == IF c.fn = "load" THEN cachedIdentity' ELSE agentState'

\* the step in which call p fails on the ownership check
FailsOnMismatchNow(p) ==
    /\ calls[p].pc = "reading"
    /\ VerifiesOwner(calls[p])
    /\ FailedOnMismatch(calls'[p])

\* C10 as stated: with an agent id configured, when the call fails on the
\* ownership check the cached state is null afterwards.
C10_Original ==
    [][\A p \in Procs :
         Truthy(env.AGENT_ID) /\ FailsOnMismatchNow(p)
            => CacheOfNext(calls[p]) = NullState]_vars

\* C10: a call that read an owner fails with the wallet-mismatch error
\* exactly when that owner differs, case-insensitively, from the configured
\* expected wallet, and the failing step leaves the cache as it was.
C10_MismatchFailsCacheUntouched ==
    /\ [](\A p \in Procs :
            VerifiesOwner(calls[p]) /\ calls[p].pc \in {"returned", "threw"}
              /\ calls[p].readOwner # ""
                => (ReadMismatch(calls[p]) <=> FailedOnMismatch(calls[p])))
    /\ [][\A p \in Procs :
            FailsOnMismatchNow(p) => CacheOfNext(calls[p]) = CacheOf(calls[p])]_vars

C10_Witness ==
    \E p \in Procs :
        /\ Truthy(env.AGENT_ID)
        /\ VerifiesOwner(calls[p])
        /\ ReadMismatch(calls[p])
        /\ FailedOnMismatch(calls[p])
        /\ CacheOf(calls[p]) = NullState

(***************************************************************************)
(* Properties of the identity cache (checked under SpecCache)              *)
(***************************************************************************)
\* call p starts in this step
StartsNow(p) ==
    /\ calls[p].pc = "idle"
    /\ calls'[p].fn \in {"bootstrap", "init", "load"}

\* the call that starts is answered from the cache: no registry read, and
\* the state it gets is the cached one
AnsweredFromCache(p) ==
    /\ calls'[p].hit
    /\ calls'[p].reads = 0
    /\ calls'[p].pc # "reading"
    /\ calls'[p].ret = CacheOfNext(calls'[p])

\* C11 as stated: once a state is cached, every later bootstrap call
\* returns the cached state and reads nothing from the registry.
C11_Original ==
    [][\A p \in Procs :
         StartsNow(p) /\ CacheOf(calls'[p]).set => AnsweredFromCache(p)]_vars

\* the call asks for the cached agent: it passes no id, or the cached one
AsksForCached(c) ==
    c.fn = "load" => (~Truthy(c.arg) \/ c.arg = cachedIdentity.agentId)

\* C11 (amended): while a state is cached, every later bootstrap call that
\* passes no agent id, or the id of the cached state, returns the cached
\* state and reads nothing from the registry, whatever the ledger and the
\* environment have become.
C11_CachedAnswersLaterCalls ==
    [][\A p \in Procs :
         StartsNow(p) /\ CacheOf(calls'[p]).set /\ AsksForCached(calls'[p])
            => AnsweredFromCache(p)]_vars

\* a call answered from the cache although the registry now names another
\* owner for the cached agent
C11_Witness ==
    \E p \in Procs :
        /\ calls[p].pc = "returned"
        /\ calls[p].hit
        /\ calls[p].ret.agentId = "5"
        /\ ledger[5] # calls[p].ret.agentAddress

\* the bootstrap singleton is changed by this step, after it was first set
StateChanges == agentState.set /\ agentState' # agentState

\* the registration transition: id, owner, URI and flag are replaced, the
\* chain and the registries stay
IsRegistrationTransition ==
    /\ agentState'.isRegistered
    /\ agentState'.agentId # NULL
    /\ agentState' = [agentState EXCEPT !.agentId = agentState'.agentId,
                                        !.agentAddress = agentState'.agentAddress,
                                        !.agentURI = agentState'.agentURI,
                                        !.isRegistered = TRUE]
    /\ \E p \in Procs : calls[p].pc = "registering" \/ calls'[p].fn = "set"

\* a bootstrap call that is handed an address fills in an empty agentAddress
IsAddressFillIn ==
    /\ agentState.agentAddress = ""
    /\ agentState'.agentAddress # ""
    /\ agentState' = [agentState EXCEPT !.agentAddress = agentState'.agentAddress]
    /\ \E p \in Procs : StartsNow(p) /\ calls'[p].hit /\ calls'[p].arg = agentState'.agentAddress

\* resetAgentState clears the singleton
IsReset == build = "verifying" /\ agentState' = NullState

\* a bootstrap that was already awaiting the registry when the state was
\* set writes its own result over it
IsOverlappingBootstrap ==
    \E p \in Procs :
        /\ calls[p].pc = "reading"
        /\ calls[p].fn \in {"bootstrap", "init"}
        /\ calls'[p].pc # "reading"
        /\ agentState' = calls'[p].ret

SetCalledNow(p) == calls[p].pc = "idle" /\ calls'[p].fn = "set"

\* the registration that call p awaited comes back with an agent id
RegisteredNow(p) ==
    /\ calls[p].pc = "registering"
    /\ calls'[p].pc = "returned"
    /\ agentState' # agentState

\* the state after the transition: the four fields hold the new values
\* together, everything else is as before
TransitionedTo(id) ==
    agentState' = [agentState EXCEPT !.agentId = id,
                                     !.agentAddress = WalletAddress(env),
                                     !.agentURI = buildMetadataURI,
                                     !.isRegistered = TRUE]

\* C13: setAgentIdentity on an initialised state replaces id, owner address,
\* URI and registered flag in one step and leaves chainId and the two
\* registry addresses as they were; on a null state it raises an error and
\* the state stays null. No reachable state shows the new id without the
\* new URI, owner and flag.
C13_RegistrationTransition ==
    /\ [][\A p \in Procs :
            /\ (SetCalledNow(p) /\ agentState.set)
                 => /\ calls'[p].pc = "returned"
                    /\ TransitionedTo(calls'[p].arg)
                    /\ agentState'.chainId = agentState.chainId
                    /\ agentState'.identityRegistry = agentState.identityRegistry
                    /\ agentState'.reputationRegistry = agentState.reputationRegistry
            /\ (SetCalledNow(p) /\ ~agentState.set)
                 => /\ calls'[p].pc = "threw"
                    /\ calls'[p].error = "not-initialised"
                    /\ agentState' = NullState
            /\ RegisteredNow(p) => TransitionedTo(MintedId(regTxs))]_vars
    /\ [](agentState.agentId \in SetArgs
            => /\ agentState.isRegistered
               /\ agentState.agentURI = buildMetadataURI
               /\ agentState.agentAddress # ""
               /\ agentState.chainId # 0)

C13_Witness ==
    \E p \in Procs :
        /\ calls[p].fn = "set"
        /\ calls[p].pc = "returned"
        /\ agentState = calls[p].ret
        /\ agentState.agentId \in SetArgs
        /\ agentState.chainId = DEFAULT_CHAIN_ID

(***************************************************************************)
(* Properties of the cached state's fields (checked under SpecConfig)      *)
(***************************************************************************)
\* the two singletons that hold an identity state
CachedStates == {agentState, cachedIdentity}

\* the string is an integer literal that is not negative
IsNonNegativeIntegerString(s) ==
    s \in {"5", "7", "9", "10", "11", "0x5"}

C15_ChainInAllowList ==
    \A s \in CachedStates :
        s.set => /\ s.chainId \in {84532, 11155111}
                 /\ s.identityRegistry = "0x8004A818"
                 /\ s.reputationRegistry = "0x8004B663"

C15_Witness ==
    /\ env.NETWORK_ID = "ethereum-sepolia"
    /\ cachedIdentity.set
    /\ cachedIdentity.chainId = 11155111
    /\ cachedIdentity.isRegistered

\* NETWORK_ID names a network outside the allow-list
UnsupportedNetwork(e) ==
    Truthy(e.NETWORK_ID) /\ e.NETWORK_ID \notin SUPPORTED_NETWORK_IDS

\* C16: with a NETWORK_ID outside the allow-list every bootstrap call fails
\* with an error: none reads the registry and none returns a state.
C16_UnsupportedNetworkFails ==
    \A p \in Procs :
        (UnsupportedNetwork(env) /\ calls[p].fn \in {"bootstrap", "init", "load"})
            => /\ calls[p].pc = "threw"
               /\ calls[p].reads = 0

(***************************************************************************)
(* Properties of the read-only routes (checked under SpecRoutes and        *)
(* SpecPremium)                                                            *)
(***************************************************************************)
\* the reputation handler has made its two reads and answered
ReputationAnswered ==
    req.pc = "done" /\ req.route = "reputation" /\ req.sdk.attempted

\* C17: whichever of the summary read and the feedback-list read fails, the
\* reputation response is a non-error one: it carries the summary that was
\* read, or count 0 / average 0 when that read failed, and the list that was
\* read, or an empty list when that read failed.
C17_ReadsDegradeIndependently ==
    ReputationAnswered
        => /\ req.response.status = 200
           /\ req.response.error = ""
           /\ req.response.summary =
                IF req.sdk.summaryOk
                  THEN [count |-> OrZero(req.sdk.summary.count),
                        averageValue |-> OrZero(req.sdk.summary.averageValue)]
                  ELSE [count |-> 0, averageValue |-> 0]
           /\ Len(req.response.feedback) =
                IF req.sdk.feedbackOk THEN Len(req.sdk.list) ELSE 0
           /\ \A i \in 1..Len(req.response.feedback) :
                /\ req.response.feedback[i].reviewer = req.sdk.list[i].reviewer
                /\ req.response.feedback[i].value = OrZero(req.sdk.list[i].value)

\* the summary read failed, the list read gave two entries
C17_Witness ==
    /\ ReputationAnswered
    /\ ~req.sdk.summaryOk
    /\ req.sdk.feedbackOk
    /\ Len(req.response.feedback) = 2
    /\ req.response.summary.count = 0
    /\ req.response.status = 200

\* the identity request's awaited load has thrown and the handler takes it up
IdentityLoadFails ==
    /\ req.pc = "loading"
    /\ req.route = "identity"
    /\ calls[req.caller].pc = "threw"
    /\ req' # req

\* C18: GET /api/agent/identity turns every failure of the identity load
\* (registry read failed, agent not found, owner mismatch) into a JSON
\* response with status 500 and an error text; nothing of the failed call
\* is left behind, so the response goes out and the next request is taken.
C18_IdentityRouteCatchesLoadFailure ==
    /\ [][IdentityLoadFails
            => /\ req'.pc = "done"
               /\ req'.response.status = 500
               /\ req'.response.error = calls[req.caller].error
               /\ req'.response.error \in {"not-found", "wallet-mismatch"}
               /\ calls'[req.caller] = CallIdle
               /\ cachedIdentity' = cachedIdentity]_vars
    /\ []((req.pc = "done" /\ req.route = "identity")
            => /\ req.response.status \in {200, 500}
               /\ ENABLED RouteRespond)
    /\ [](req.pc = "idle" => ENABLED IdentityReceive)

C18_Witness ==
    /\ req.pc = "done"
    /\ req.route = "identity"
    /\ req.response.status = 500
    /\ req.response.error = "wallet-mismatch"
    /\ calls[RouteCaller] = CallIdle

\* a GET /api/agent/premium has been answered
PremiumInfoAnswered == req.pc = "done" /\ req.route = "premium"

\* the POST gate of the premium route holds a proof it accepted
PremiumProofAccepted == gate.route = "premium" /\ gate.verified

\* the POST gate of the premium route answered payment-required with its
\* accepted terms (a failed settlement is a 402 without terms)
PremiumPaymentRequired ==
    /\ gate.route = "premium"
    /\ gate.response.status = 402
    /\ Len(gate.response.accepts) > 0

\* C19: GET /api/agent/premium answers 200 with the payment terms (scheme,
\* price, network, payTo) and no settlement data, and verifies and settles
\* nothing; the terms are the ones the POST gate of the endpoint enforces:
\* the ones its payment-required response offers and the ones every proof
\* it accepts pays.
C19_InfoTermsAreGateTerms ==
    /\ [](PremiumInfoAnswered
            => /\ req.response.status = 200
               /\ ~req.response.hasSettlement
               /\ req.response.payment = GetPaymentInfo(env)
               /\ MatchesTerms(req.response.payment, RouteConfig("premium", env))
               /\ (PremiumPaymentRequired
                     => MatchesTerms(req.response.payment, gate.response.accepts[1]))
               /\ (PremiumProofAccepted
                     => MatchesTerms(gate.header, req.response.payment)))
    /\ [][(req.pc = "idle" /\ PremiumInfoAnswered') => gate' = gate]_vars

C19_Witness ==
    /\ PremiumInfoAnswered
    /\ req.response.payment.price = "$0.005"
    /\ req.response.payment.payTo = "0xAA"
    /\ PremiumProofAccepted
    /\ gate.header.price = "$0.005"

\* some initialisation hands its registration to the wallet in this step
SubmitsRegistration == regTxs' = regTxs + 1

\* some initialisation's registration comes back with an id and the
\* registration transition writes the cached identity
WritesRegistration == \E p \in Procs : RegisteredNow(p)

\* C20: across any sequence or interleaving of agent initialisations the
\* registration transition happens at most once: at most one registration
\* transaction is submitted, and the registration transition never writes
\* a cached identity that a registration has already written.
C20_RegistersAtMostOnce ==
    /\ [](regTxs <= 1)
    /\ [][SubmitsRegistration => regTxs = 0]_vars
    /\ [][WritesRegistration => ~agentState.isRegistered]_vars

\* two initialisations have each submitted a registration and the second
\* id has replaced the first in the cached identity
C20_RegisteredTwice ==
    /\ regTxs = 2
    /\ agentState.isRegistered
    /\ agentState.agentId = MintedId(2)

\* the start-up call of p ends with its bootstrap, without registering
InitSkipsRegistration(p) ==
    /\ calls[p].pc \in {"idle", "reading"}
    /\ calls'[p].fn = "init"
    /\ calls'[p].pc = "returned"

\* the start-up call of p goes on from its bootstrap to registerAgent
InitRegisters(p) ==
    /\ calls[p].pc \in {"idle", "reading"}
    /\ calls'[p].pc = "registering"

\* C21: at start-up a registration transaction is submitted only when the
\* bootstrapped state is unregistered and REGISTER_IDENTITY is exactly
\* "true"; when the agent is registered or the flag is anything else, no
\* transaction is sent and the cached state stays what the bootstrap made.
C21_RegistersOnlyWhenAsked ==
    [][/\ SubmitsRegistration
            => \E p \in Procs :
                 /\ InitRegisters(p)
                 /\ calls'[p].fn = "init"
                 /\ ~calls'[p].ret.isRegistered
                 /\ agentState' = calls'[p].ret
                 /\ env.REGISTER_IDENTITY = "true"
       /\ \A p \in Procs :
            /\ InitRegisters(p) => SubmitsRegistration
            /\ InitSkipsRegistration(p)
                 => /\ calls'[p].ret.isRegistered \/ env.REGISTER_IDENTITY # "true"
                    /\ regTxs' = regTxs
                    /\ agentState' = calls'[p].ret]_vars

\* a start-up that found the agent unregistered and a flag that is set but
\* is not "true" has ended without a registration
C21_Witness ==
    \E p \in Procs :
        /\ calls[p].fn = "init"
        /\ calls[p].pc = "returned"
        /\ ~calls[p].ret.isRegistered
        /\ env.REGISTER_IDENTITY = "TRUE"
        /\ regTxs = 0
        /\ agentState = calls[p].ret

\* the registration that the start-up call of p awaited has come back
RegistrationReturns(p) == calls[p].pc = "registering" /\ calls'[p].pc # "registering"

\* C22: the start-up makes the cached state registered only when the
\* registration result carries an agent id; when the transaction failed or
\* no id could be extracted, the cached state keeps every field, and in
\* all three cases the start-up completes without raising an error.
C22_RegisteredOnlyWithAgentId ==
    [][\A p \in Procs :
         RegistrationReturns(p)
           => /\ calls'[p].pc = "returned"
              /\ calls'[p].error = ""
              /\ calls'[p].result \in RegisterOutcomes
              /\ calls'[p].result = "id"
                   => /\ TransitionedTo(MintedId(regTxs))
                      /\ agentState'.isRegistered
              /\ calls'[p].result # "id" => agentState' = agentState]_vars

\* a start-up has ended after a registration without an id, the cached
\* state still unregistered
C22_Witness ==
    \E p \in Procs :
        /\ calls[p].pc = "returned"
        /\ calls[p].result = "noid"
        /\ regTxs = 1
        /\ agentState.set
        /\ ~agentState.isRegistered
        /\ agentState.agentId = NULL

\* caller p calls loadAgentIdentity in this step
LoadCalledNow(p) == calls[p].pc = "idle" /\ calls'[p].fn = "load"

\* the id the call was given is the cached one, or none was given
AsksForTheCached(p) ==
    /\ cachedIdentity.set
    /\ calls'[p].arg = "" \/ calls'[p].arg = cachedIdentity.agentId

\* the call was answered at once with the state the cache held
AnsweredWithTheCached(p) ==
    /\ cachedIdentity.set
    /\ calls'[p].pc = "returned"
    /\ calls'[p].reads = 0
    /\ calls'[p].ret = cachedIdentity
    /\ cachedIdentity' = cachedIdentity

\* the registry's answer to a load of caller p was good
LoadSucceedsNow(p) ==
    /\ calls[p].pc = "reading"
    /\ calls[p].fn = "load"
    /\ calls'[p].pc = "returned"

\* C23: loadAgentIdentity(id) returns the cached state without a ledger
\* read exactly when a state is cached and id is omitted or equals the
\* cached agentId; with a cached state and another id it reads the ledger
\* again and, when the read succeeds, replaces the cached state with the
\* registered state of that id.
C23_CacheKeyedByAgentId ==
    [][\A p \in Procs :
         /\ LoadCalledNow(p)
              => /\ AsksForTheCached(p) <=> AnsweredWithTheCached(p)
                 /\ AsksForTheCached(p) <=> calls'[p].hit
                 /\ (cachedIdentity.set /\ ~AsksForTheCached(p))
                      => /\ calls'[p].pc = "reading"
                         /\ calls'[p].reads = 1
                         /\ calls'[p].targetId = calls'[p].arg
                         /\ cachedIdentity' = cachedIdentity
         /\ LoadSucceedsNow(p)
              => /\ cachedIdentity' = calls'[p].ret
                 /\ cachedIdentity'.isRegistered
                 /\ cachedIdentity'.agentId = calls[p].targetId
                 /\ cachedIdentity'.agentAddress = ledger[BigInt(calls[p].targetId)]]_vars

\* a load asked for agent 7 while AGENT_ID names agent 5, read the
\* registry and left the state of agent 7 in the cache
C23_Witness ==
    \E p \in Procs :
        /\ calls[p].fn = "load"
        /\ calls[p].pc = "returned"
        /\ calls[p].arg = "7"
        /\ calls[p].reads = 1
        /\ env.AGENT_ID = "5"
        /\ cachedIdentity = calls[p].ret
        /\ cachedIdentity.agentId = "7"

\* a prompt value the validation is meant to turn away
BadPrompt(v) ==
    v.kind # "string" \/ v.len < MinPromptLen \/ v.len > MaxPromptLen

\* the prompt the handler works with: body.prompt, else body.input, else
\* the default text, a falsy value counting as absent
PromptUsed(body) ==
    IF TruthyVal(body.prompt) THEN body.prompt
    ELSE IF TruthyVal(body.input) THEN body.input
    ELSE Str(DefaultPromptLen)

\* the image handler has run behind a verified payment and the request is
\* answered
ImageHandled ==
    /\ gate.route = "image"
    /\ gate.verified
    /\ gate.handlerCalls = 1
    /\ gate.pc = "done"
    /\ gate.body.parsed = "object"

\* the request ended as a validation failure: 400, nothing generated or
\* stored whatever the services would have answered, nothing settled
RejectedUnsettled ==
    /\ gate.handlerStatus = 400
    /\ gate.response.status = 400
    /\ ~gate.response.settlement.present
    /\ gate.settleCalls = 0
    /\ \A openai \in OpenAiOutcomes, fetchOk \in BOOLEAN, uploadOk \in BOOLEAN :
         LET res == imageHandler(gate.body, env, openai, fetchOk, uploadOk)
         IN  res.status = 400 /\ ~res.generated /\ ~res.uploaded

C25_SendsOnlyWhenChecksPass ==
    script.sent > 0
      => /\ \A v \in requiredEnvVars : Truthy(env[v])
         /\ OrElse(env.NETWORK_ID, DEFAULT_NETWORK_ID) \in SUPPORTED_NETWORK_IDS
         /\ ~Truthy(env.AGENT_ID)
         /\ toLowerCase(script.walletAddress) = toLowerCase(env.AGENT_WALLET_ADDRESS)

\* confirmPendingImage is called in this step
ConfirmNow == hook'.confirms = hook.confirms + 1

\* the cancellation message is appended in this step
CancelMessageNow == hook'.messages = Append(hook.messages, "cancelled")

\* C26 as stated: a pending image request is handed out by confirm at most
\* once; a confirm returns the pending prompt and clears the request, and
\* returns null when none is pending; the cancellation message is appended
\* only if a request was pending.
C26_Original ==
    /\ [](hook.served <= 1)
    /\ [][ConfirmNow => /\ hook'.lastConfirm = hook.pendingImageRequest
                        /\ hook'.pendingImageRequest = NULL]_vars
    /\ [][CancelMessageNow => hook.pendingImageRequest # NULL]_vars

\* C26: the same, for the pending request that the render which created
\* the callback saw: a confirm returns that request's prompt (null if the
\* render saw none) and clears the pending request; once the hook has
\* rendered again, the next confirm returns null until an agent response
\* sets a new request, and a request still pending has not been handed out.
C26_ConfirmPerRender ==
    /\ [][ConfirmNow
            => /\ hook'.lastConfirm = hook.rendered
               /\ hook.rendered # NULL => hook'.pendingImageRequest = NULL
               /\ hook.rendered = NULL
                    => hook'.pendingImageRequest = hook.pendingImageRequest
               /\ hook.rendered = hook.pendingImageRequest
                    => /\ hook'.lastConfirm = hook.pendingImageRequest
                       /\ hook'.pendingImageRequest = NULL]_vars
    /\ [](hook.pendingImageRequest # NULL => hook.served = 0)
    /\ [][CancelMessageNow
            => hook.rendered # NULL /\ hook'.pendingImageRequest = NULL]_vars

\* a first confirm got the prompt, the hook rendered, and a second confirm
\* got null
C26_Witness ==
    /\ hook.confirms = 2
    /\ hook.served = 1
    /\ hook.lastConfirm = NULL
    /\ hook.rendered = NULL
    /\ hook.pendingImageRequest = NULL

\* a state with every field filled in, as one load writes it
CompleteState(st) ==
    /\ st.set
    /\ isChainSupported(st.chainId)
    /\ st.identityRegistry # "" /\ st.reputationRegistry # ""
    /\ st.isRegistered <=> st.agentId # NULL
    /\ st.isRegistered => st.agentURI # NULL /\ st.agentAddress # ""
    /\ ~st.isRegistered => st.agentURI = NULL

\* what one loadAgentIdentity() alone leaves in the cache for this
\* environment and this registry (null when it throws)
SingleLoad(e, ldg) ==
    IF ~Truthy(e.AGENT_ID)
      THEN UnregisteredState(OrElse(e.AGENT_WALLET_ADDRESS, ""), networkChainId(e))
      ELSE LET identity == getAgentIdentity(ldg, BigInt(e.AGENT_ID), TRUE)
           IN  IF identity.found /\ ~OwnerMismatch(identity.owner, e.AGENT_WALLET_ADDRESS)
                 THEN [ set |-> TRUE, agentId |-> e.AGENT_ID,
                        agentAddress |-> identity.owner,
                        agentURI |-> identity.agentURI, isRegistered |-> TRUE,
                        chainId |-> networkChainId(e),
                        identityRegistry |-> getRegistryAddress("identity", networkChainId(e)),
                        reputationRegistry |-> getRegistryAddress("reputation", networkChainId(e)) ]
                 ELSE NullState

\* no identity request is waiting for the registry
AllLoadsCompleted == \A p \in Procs : calls[p].pc # "reading"

\* C27: when identity requests overlap before the first load has finished,
\* each may read the registry, the cache holds null or a complete state at
\* every moment, and once all of them have completed (the registry not
\* having changed meanwhile) a filled cache holds the state one load alone
\* would have produced.
C27_OverlappingLoadsAgree ==
    /\ cachedIdentity = NullState \/ CompleteState(cachedIdentity)
    /\ (AllLoadsCompleted /\ cachedIdentity.set /\ ledgerChanges = 0)
         => cachedIdentity = SingleLoad(env, ledger)
    /\ \A p \in Procs :
         (calls[p].pc = "returned" /\ ledgerChanges = 0)
           => calls[p].ret = SingleLoad(env, ledger)

\* two requests have both read the registry and both have returned
C27_Witness ==
    /\ \A p \in Procs : calls[p].pc = "returned" /\ calls[p].reads = 1
    /\ cachedIdentity.isRegistered
    /\ ledgerChanges = 0

\* a feedback POST tried the upload and nothing was pinned
FeedbackUploadFailed ==
    /\ fb.pc = "post"
    /\ IpfsConfigured(env)
    /\ fb.uploads = 1
    /\ fb.pinned = <<>>

\* C28: with the upload enabled and configured, a feedback POST whose
\* upload to the content store fails is answered with status 500 and
\* neither a uri nor a hash; the data URI is not used as a fallback.
C28_UploadFailureIsAnError ==
    /\ FeedbackUploadFailed
         => /\ fb.resp.status = 500
            /\ ~fb.resp.hasUri /\ fb.resp.uri = NoUri
            /\ ~fb.resp.hasHash /\ fb.resp.hash = NoHash
            /\ ~fb.resp.uploadedToIpfs
    /\ (fb.pc = "post" /\ IpfsConfigured(env) /\ fb.resp.status = 200)
         => /\ fb.uploads = 1
            /\ fb.resp.uri = IpfsUri(fb.pinned)
            /\ fb.resp.uri # generateDataUri(FeedbackData(fb.body, fb.now))

C28_Witness ==
    /\ FeedbackUploadFailed
    /\ fb.body.parsed = "object"
    /\ ~ScoreRejected(fb.body.score)
    /\ fb.resp.status = 500

\* an identity request has been answered with metadata
MetadataServed ==
    /\ req.pc = "done"
    /\ req.route = "identity"
    /\ req.response.status = 200
    /\ req.response.metadata.set

\* C29: the metadata an identity request serves was fetched from the
\* agentURI of the identity state it is served with, and a non-null cached
\* metadata and a non-null cached identity refer to the same URI.
C29_MetadataBelongsToIdentity ==
    /\ MetadataServed => req.response.metadata.uri = req.response.identity.agentURI
    /\ (cachedMetadata.set /\ cachedIdentity.set)
         => cachedMetadata.uri = cachedIdentity.agentURI

\* C30: whenever the page holds a proof of payment, it was built from the
\* settlement of the most recent endpoint call: its txHash is
\* lastPaymentTxHash and lastEndpoint is the paid endpoint it belongs to,
\* so no proof goes out with feedback for a call that was not paid.
C30_ProofBelongsToLastCall ==
    page.lastProofOfPayment.set
      => /\ page.lastProofOfPayment.txHash = page.lastPaymentTxHash
         /\ page.lastEndpoint \in PaidEndpoints

====
